---- MODULE Spec2Model ----
(***************************************************************************)
(* Application status workflow of the recruitment backend                  *)
(* (rec_back/app/services/application.py).  The state is the committed     *)
(* content of the database tables the workflow touches; every action is    *)
(* one call of a service method, run to completion.                        *)
(***************************************************************************)
EXTENDS Integers, Sequences, FiniteSets, TLC

\* ---------------------------------------------------------------- bounds
\* Size of the application_status_history table the model explores.
MaxHistoryRows == 4

\* ------------------------------------------------------------ fixed data
\* Users that call create_application; u3 has no CandidateProfile.
Users == {"u1", "u2", "u3"}
Candidates == {"c1", "c2"}
Jobs == {"j1", "j2"}
\* A job id that is in no row of the jobs table.
NoJob == "j0"
NoConsultant == "none"
Consultants == {"k1"}
\* Python's None, for an absent row, field or result.
None == 0
\* A value of a field that has been set (an interview date, a salary).
Given == 1

\* CandidateProfile.user_id: the profile of a user, None when there is none.
ProfileOf(u) == CASE u = "u1" -> "c1" [] u = "u2" -> "c2" [] OTHER -> "none"
UserOf(c) == CASE c = "c1" -> "u1" [] OTHER -> "u2"
\* The consultant assigned to a candidate's applications (consultant_id).
AssignedConsultant(c) == IF c = "c1" THEN "k1" ELSE NoConsultant

\* ----------------------------------------------------------------- enums
ApplicationStatus_swapped ==
    << "SUBMITTED", "UNDER_REVIEW_RECRUITMENTPLUS", "INTERVIEW_SCHEDULED",
       "PRESENTED_TO_EMPLOYER", "REJECTED", "OFFER_MADE", "HIRED" >>

\* The members of ApplicationStatus in declaration order.
ApplicationStatus ==
    << "SUBMITTED", "UNDER_REVIEW_RECRUITMENTPLUS", "PRESENTED_TO_EMPLOYER",
       "INTERVIEW_SCHEDULED", "REJECTED", "OFFER_MADE", "HIRED" >>

JobStatus == {"DRAFT", "OPEN", "CLOSED", "FILLED", "CANCELLED"}

Statuses == {ApplicationStatus[i] : i \in DOMAIN ApplicationStatus}

\* Position of a status in the enum.
EnumIndex(s) == CHOOSE i \in DOMAIN ApplicationStatus : ApplicationStatus[i] = s

VARIABLES
    jobs,             \* jobs table: job id -> [status, application_count]
    applications,     \* applications table: row i is the application with id i
    status_history,   \* application_status_history table: rows
                      \* [application_id, seq, status], seq ordering the rows
                      \* of one application by date_changed
    placements,       \* consultant id -> placement counter
    status_changes,   \* application id -> number of status changes applied to it
    profile,          \* the candidate profile: its records, fields and
                      \* profile_completed flag
    delivery,         \* the notification service: the call it was given and
                      \* what the call did
    assist,           \* the AI service: the call it was given and its answer
    query,            \* the search: the rows, the request and the response
    consultant_profiles,  \* consultant_profiles table: row i is the profile
                      \* with id i, [user_id, manager_id]
    employer_profiles,    \* employer_profiles table: rows
                      \* [user_id, company_id, can_post_jobs]
    requests,             \* the requests in progress: request slot -> what
                      \* the request was given and what it has read
    lastOp            \* the call whose response is being returned: what it
                      \* was given and how it ended; NoCall between calls

\* The variables of the application workflow.
appVars == << jobs, applications, status_history, placements, status_changes, lastOp >>

\* The value of the variable of a service no call is made to.
Idle == [ phase |-> "idle" ]

\* The tables no service of the application workflow, the candidate
\* profile, the notifications, the AI service or the search writes.
others == << consultant_profiles, employer_profiles, requests >>

vars == << appVars, profile, delivery, assist, query, others >>

\* The committed database as a request finds it; notifications collects
\* what the request hands to the notification service.
DB == [ jobs |-> jobs, applications |-> applications,
        status_history |-> status_history, placements |-> placements,
        notifications |-> {} ]

AppIds(d) == DOMAIN d.applications

\* The rows of one application in the history table.
RowsOf(d, id) == { r \in d.status_history : r.application_id = id }

\* The StatusHistory of one application, oldest row first.
HistoryOf(d, id) ==
    [ n \in 1 .. Cardinality(RowsOf(d, id)) |->
        (CHOOSE r \in RowsOf(d, id) : r.seq = n).status ]

\* The outcome of one call: the database it leaves committed, the value it
\* returns (None or an application id) and whether it raised.
Ret(d, result, raised) ==
    [ db |-> d, result |-> result, raised |-> raised ]

\* ------------------------------------------------- CRUD layer (app.crud)
Terminal(s) == s \in {"HIRED", "REJECTED"}

ValidTransition_forward(cur, new) ==
    ~Terminal(cur) /\ EnumIndex(new) > EnumIndex(cur)

\* changeStatus's validation: the target is REJECTED, or lies strictly
\* forward of the current status in the enum; terminal statuses are final.
ValidTransition(cur, new) ==
    /\ ~Terminal(cur)
    /\ \/ new = "REJECTED"
       \/ EnumIndex(new) > EnumIndex(cur)

\* application_crud.create: inserts the row with the fields of obj_in.
crud_create(d, candidate_id, job_id, status, consultant_id) ==
    [ d EXCEPT !.applications = Append(@,
        [ candidate_id |-> candidate_id, job_id |-> job_id, status |-> status,
          interview_date |-> None, offer_salary |-> None,
          consultant_id |-> consultant_id ]) ]

\* status_history_crud.create_status_change: appends one history row.
create_status_change(d, application_id, status) ==
    [ d EXCEPT !.status_history = @ \cup
        { [ application_id |-> application_id,
            seq |-> Cardinality(RowsOf(d, application_id)) + 1,
            status |-> status ] } ]

\* application_crud.change_status: None when the application does not exist
\* or the transition is refused; otherwise the new status and its history row.
change_status(d, application_id, new_status) ==
    IF application_id \notin AppIds(d) THEN Ret(d, None, FALSE)
    ELSE IF ~ValidTransition(d.applications[application_id].status, new_status)
         THEN Ret(d, None, FALSE)
    ELSE Ret(create_status_change(
                 [ d EXCEPT !.applications[application_id].status = new_status ],
                 application_id, new_status), application_id, FALSE)

\* application_crud.schedule_interview: sets the interview fields.
crud_schedule_interview(d, application_id) ==
    IF application_id \notin AppIds(d) THEN Ret(d, None, FALSE)
    ELSE Ret([ d EXCEPT !.applications[application_id].interview_date = Given ],
             application_id, FALSE)

\* application_crud.make_offer: sets the offer fields.
crud_make_offer(d, application_id) ==
    IF application_id \notin AppIds(d) THEN Ret(d, None, FALSE)
    ELSE Ret([ d EXCEPT !.applications[application_id].offer_salary = Given ],
             application_id, FALSE)

\* consultant_candidate_crud.update_metrics(metric_type="placement").
update_metrics(d, consultant_id) ==
    [ d EXCEPT !.placements[consultant_id] = @ + 1 ]

\* --------------------------------------- ApplicationService (the service)
\* What stays committed when a request raises: the transaction is rolled
\* back to `committed`, while the notifications already handed out (written
\* through a session of their own) stay.
Rollback(committed, session) ==
    [ committed EXCEPT !.notifications = session.notifications ]

\* _send_application_notifications: one notification to the candidate's user
\* when notify_candidate is set; the employer branch does nothing.
send_application_notifications(d, application_id, notification_type, notify_candidate, notify_employer) ==
    IF notify_candidate
    THEN Ret([ d EXCEPT !.notifications = @ \cup
                 { [ recipient_id |-> UserOf(d.applications[application_id].candidate_id),
                     notification_type |-> "application_" \o notification_type ] } ],
             None, FALSE)
    ELSE Ret(d, None, FALSE)

hired_count_offers(d, job_id) ==
    Cardinality({ i \in AppIds(d) :
        /\ d.applications[i].job_id = job_id
        /\ d.applications[i].status = "OFFER_MADE" })

\* The query of _handle_hire: the applications of the job that are HIRED.
hired_count(d, job_id) ==
    Cardinality({ i \in AppIds(d) :
        /\ d.applications[i].job_id = job_id
        /\ d.applications[i].status = "HIRED" })

\* _handle_hire: marks the job FILLED and commits once one hire exists, then
\* updates the placement counter of the assigned consultant.  `committed` is
\* the database as last committed, d the state of the session.
handle_hire(committed, d, application_id, fail) ==
    LET application == d.applications[application_id]
        job_id      == application.job_id
        fills       == hired_count(d, job_id) >= 1
        filled      == IF fills
                       THEN [ d EXCEPT !.jobs[job_id].status = "FILLED" ]
                       ELSE d
    IN  IF fills /\ fail = "commit"
        THEN Ret(Rollback(committed, d), None, TRUE)
        ELSE IF application.consultant_id # NoConsultant
        THEN IF fail = "update_metrics"
             THEN Ret(Rollback(IF fills THEN filled ELSE committed, d),
                      None, TRUE)
             ELSE Ret(update_metrics(filled, application.consultant_id),
                      application_id, FALSE)
        ELSE Ret(filled, application_id, FALSE)

\* update_application_status (changeStatus).  fail names the step that
\* raises: "none", "change_status", "commit" or "update_metrics".
update_application_status(d, application_id, new_status, notify_candidate, notify_employer, fail) ==
    IF fail = "change_status" THEN Ret(d, None, TRUE)
    ELSE
    LET changed  == change_status(d, application_id, new_status)
        notified == IF notify_candidate \/ notify_employer
                    THEN send_application_notifications(changed.db, application_id,
                             "status_change", notify_candidate, notify_employer)
                    ELSE Ret(changed.db, None, FALSE)
    IN  IF changed.result = None THEN Ret(d, None, FALSE)
        ELSE IF new_status = "HIRED"
        THEN LET hired == handle_hire(d, notified.db, application_id, fail)
             IN  Ret(hired.db, hired.result, hired.raised)
        ELSE Ret(notified.db, application_id, FALSE)

\* Job.posted_by: the user of the employer who posted the job.
posted_by(job_id) == "e1"

\* The CandidateProfile query of create_application: the profile of the
\* calling user, "none" when the user has none.
candidate_profile(candidate_user_id) == ProfileOf(candidate_user_id)

job_is_open_any(d, job_id) == job_id \in DOMAIN d.jobs

\* The job check of create_application: the job exists and is OPEN.
job_is_open(d, job_id) ==
    job_id \in DOMAIN d.jobs /\ d.jobs[job_id].status = "OPEN"

Existing_none(d, candidate_id, job_id) == {}

\* The rows the duplicate check of create_application selects from.
Existing(d, candidate_id, job_id) ==
    { i \in AppIds(d) : /\ d.applications[i].candidate_id = candidate_id
                        /\ d.applications[i].job_id = job_id }

initial_status_under_review == "UNDER_REVIEW_RECRUITMENTPLUS"

\* The status create_application gives a new application and its first
\* history row.
initial_status == "SUBMITTED"

initial_status_history_none(d, application_id) == d

\* The initial history row of create_application.
initial_status_history(d, application_id) ==
    create_status_change(d, application_id, initial_status)

count_application_twice(d, job_id) ==
    [ d EXCEPT !.jobs[job_id].application_count = @ + 2 ]

\* The counter update of create_application.
count_application(d, job_id) ==
    [ d EXCEPT !.jobs[job_id].application_count = @ + 1 ]

\* create_application (create).  existing is the row .first() returned for
\* the duplicate check (None when there is none); fail = "db" makes a
\* database step before the commit raise.
create_application(d, candidate_user_id, job_id, consultant_id, existing, fail) ==
    LET candidate == candidate_profile(candidate_user_id)
        id        == Len(d.applications) + 1
        created   == crud_create(d, candidate, job_id, initial_status, consultant_id)
        recorded  == initial_status_history(created, id)
        counted   == count_application(recorded, job_id)
        notified  == send_application_notifications(counted, id,
                         "new_application", TRUE, TRUE)
    IN  IF candidate = "none" THEN Ret(d, None, FALSE)
        ELSE IF ~job_is_open(d, job_id) THEN Ret(d, None, FALSE)
        ELSE IF existing # None THEN Ret(d, existing, FALSE)
        ELSE IF fail = "db" THEN Ret(d, None, TRUE)
        ELSE Ret(notified.db, id, FALSE)

not_found_never(application) == FALSE

\* The guard of schedule_interview and make_offer: the CRUD call found no
\* application.
not_found(application) == application = None

\* _send_interview_invitation and _send_offer_letter format application.id
\* into a log line: they raise when handed None and do nothing else.
invitation_raises(application) == application = None

\* schedule_interview (scheduleInterview).  fail = "crud" makes the field
\* update raise; the other values are those of update_application_status.
schedule_interview(d, application_id, notify_candidate, fail) ==
    LET updated == crud_schedule_interview(d, application_id)
        status  == update_application_status(updated.db, application_id,
                       "INTERVIEW_SCHEDULED", notify_candidate, FALSE, fail)
    IN  IF fail = "crud" THEN Ret(d, None, TRUE)
        ELSE IF not_found(updated.result) THEN Ret(d, None, FALSE)
        ELSE IF status.raised THEN Ret(Rollback(d, status.db), None, TRUE)
        ELSE IF notify_candidate /\ invitation_raises(updated.result)
        THEN Ret(Rollback(d, status.db), None, TRUE)
        ELSE Ret(status.db, updated.result, FALSE)

\* make_offer (makeOffer).
make_offer(d, application_id, notify_candidate, fail) ==
    LET updated == crud_make_offer(d, application_id)
        status  == update_application_status(updated.db, application_id,
                       "OFFER_MADE", notify_candidate, FALSE, fail)
    IN  IF fail = "crud" THEN Ret(d, None, TRUE)
        ELSE IF not_found(updated.result) THEN Ret(d, None, FALSE)
        ELSE IF status.raised THEN Ret(Rollback(d, status.db), None, TRUE)
        ELSE IF notify_candidate /\ invitation_raises(updated.result)
        THEN Ret(Rollback(d, status.db), None, TRUE)
        ELSE Ret(status.db, updated.result, FALSE)

\* ------------------------------------------------------------ the machine
\* The steps of update_application_status that can raise for a target.
FailModes(new_status) ==
    IF new_status = "HIRED"
    THEN {"none", "change_status", "commit", "update_metrics"}
    ELSE {"none", "change_status"}

\* The tables a request's transaction writes.
Tables(d) == << d.jobs, d.applications, d.status_history, d.placements >>

\* One more applied status change for every application whose status differs.
CountChanges(d, e) ==
    [ i \in AppIds(e) |->
        IF i \in AppIds(d)
        THEN status_changes[i] + (IF e.applications[i].status # d.applications[i].status
                                  THEN 1 ELSE 0)
        ELSE 0 ]

\* The value of lastOp while no call is returning its response.
NoCall ==
    [ op |-> "none", job_id |-> NoJob, result |-> None, raised |-> FALSE,
      sent |-> {}, effects |-> FALSE ]

\* Installs the outcome r of a call as the next state.  The service is
\* called once per request: a call starts when the previous one has returned.
Finish(op, job_id, r) ==
    /\ lastOp = NoCall
    /\ Cardinality(r.db.status_history) <= MaxHistoryRows
    /\ jobs' = r.db.jobs
    /\ applications' = r.db.applications
    /\ status_history' = r.db.status_history
    /\ placements' = r.db.placements
    /\ status_changes' = CountChanges(DB, r.db)
    /\ lastOp' = [ op |-> op, job_id |-> job_id,
                   result |-> r.result, raised |-> r.raised,
                   sent |-> r.db.notifications,
                   effects |-> Tables(r.db) # Tables(DB) ]
    /\ UNCHANGED << profile, delivery, assist, query, others >>

\* A candidate profile as created: no records, no summary, no CV.
NewProfile ==
    [ education |-> 0, experience |-> 0, skills |-> 0, preferences |-> FALSE,
      summary |-> FALSE, cv_urls |-> 0, profile_completed |-> FALSE ]

\* Requests the service handles at the same time.
MaxRequests == 2

\* A request slot no request occupies.
IdleRequest ==
    [ op |-> "none", phase |-> "idle", user_id |-> "none", job_id |-> NoJob,
      application_id |-> None, new_status |-> "none", seen_count |-> 0,
      seen_status |-> "none" ]

NoRequests == [ r \in 1 .. MaxRequests |-> IdleRequest ]

InitApplications ==
    /\ consultant_profiles = << >>
    /\ employer_profiles = {}
    /\ requests = NoRequests
    /\ jobs = [ j \in Jobs |->
                 [ status |-> IF j = "j1" THEN "OPEN" ELSE "DRAFT",
                   application_count |-> 0 ] ]
    /\ applications = << >>
    /\ status_history = {}
    /\ placements = [ k \in Consultants |-> 0 ]
    /\ status_changes = << >>
    /\ lastOp = NoCall

Init ==
    /\ InitApplications
    /\ profile = NewProfile
    /\ delivery = Idle
    /\ assist = Idle
    /\ query = Idle

\* An application id a caller may pass: an existing one or the next free one.
CallIds == 1 .. (Len(applications) + 1)

CreateCall(u, j, existing, fail) ==
    Finish("create_application", j,
           create_application(DB, u, j, AssignedConsultant(ProfileOf(u)),
                              existing, fail))

\* A call of create_application by user u for job j.
CreateStep(u, j) ==
    LET found == Existing(DB, candidate_profile(u), j)
    IN  \E existing \in (IF found = {} THEN {None} ELSE found),
           fail \in {"none", "db"} :
          CreateCall(u, j, existing, fail)

CreateApplication ==
    \E u \in Users, j \in Jobs \cup {NoJob} : CreateStep(u, j)

UpdateCall(id, new, nc, ne, fail) ==
    Finish("update_application_status", NoJob,
           update_application_status(DB, id, new, nc, ne, fail))

UpdateApplicationStatus ==
    \E id \in CallIds, new \in Statuses, nc \in BOOLEAN, ne \in BOOLEAN :
      \E fail \in FailModes(new) : UpdateCall(id, new, nc, ne, fail)

ScheduleCall(id, nc, fail) ==
    Finish("schedule_interview", NoJob, schedule_interview(DB, id, nc, fail))

ScheduleInterview ==
    \E id \in CallIds, nc \in BOOLEAN,
       fail \in FailModes("INTERVIEW_SCHEDULED") \cup {"crud"} :
      ScheduleCall(id, nc, fail)

OfferCall(id, nc, fail) ==
    Finish("make_offer", NoJob, make_offer(DB, id, nc, fail))

MakeOffer ==
    \E id \in CallIds, nc \in BOOLEAN,
       fail \in FailModes("OFFER_MADE") \cup {"crud"} :
      OfferCall(id, nc, fail)

\* The call returns its result (or its exception) to the caller; the tables
\* stay as the call left them.
Return ==
    /\ lastOp # NoCall
    /\ lastOp' = NoCall
    /\ UNCHANGED << jobs, applications, status_history, placements, status_changes >>
    /\ UNCHANGED << profile, delivery, assist, query, others >>

Next ==
    \/ CreateApplication
    \/ UpdateApplicationStatus
    \/ ScheduleInterview
    \/ MakeOffer
    \/ Return

Spec == Init /\ [][Next]_vars

TypeOK ==
    /\ \A j \in Jobs : jobs[j].status \in JobStatus /\ jobs[j].application_count \in Nat
    /\ \A i \in DOMAIN applications :
         /\ applications[i].status \in Statuses
         /\ applications[i].candidate_id \in Candidates
         /\ applications[i].job_id \in Jobs
    /\ Cardinality(status_history) <= MaxHistoryRows
    /\ DOMAIN status_changes = DOMAIN applications

\* ===================================================== candidate profile
\* (rec_back/app/services/candidate.py, rec_back/app/crud/candidate.py,
\* rec_back/app/api/v1/candidates.py).  The profile holds the number of its
\* education, experience and skill rows, whether it has a preferences row
\* and a summary, the number of its cv_urls, and profile_completed.

\* Rows of one kind the model lets a profile hold.
MaxRecords == 2

\* upload_cv keeps the last five CVs.
MaxCvUrls == 5

\* What a profile update carries for the summary: "unset" leaves it,
\* "empty" clears it, "text" sets it.
SummaryInputs == {"unset", "empty", "text"}

\* update_profile_completion: the flag is recomputed from the presence of
\* education, experience, skills, preferences, summary and CV.
update_profile_completion(p) ==
    [ p EXCEPT !.profile_completed =
        /\ p.education > 0
        /\ p.experience > 0
        /\ p.skills > 0
        /\ p.preferences
        /\ p.summary
        /\ p.cv_urls > 0 ]

\* CRUDBase.update of the profile with the fields a caller gives.
crud_update_summary(p, summary) ==
    IF summary = "unset" THEN p ELSE [ p EXCEPT !.summary = (summary = "text") ]

add_education(p) ==
    update_profile_completion([ p EXCEPT !.education = @ + 1 ])

\* delete_education: found tells whether the record exists.
delete_education(p, found) ==
    IF found
    THEN update_profile_completion([ p EXCEPT !.education = @ - 1 ])
    ELSE p

add_work_experience(p) ==
    update_profile_completion([ p EXCEPT !.experience = @ + 1 ])

delete_work_experience(p, found) ==
    IF found
    THEN update_profile_completion([ p EXCEPT !.experience = @ - 1 ])
    ELSE p

\* update_job_preferences: creates the preferences row or updates it.
update_job_preferences(p) ==
    update_profile_completion([ p EXCEPT !.preferences = TRUE ])

\* update_skills: replaces the skill rows by those of skill_ids.
update_skills(p, skill_ids) ==
    update_profile_completion([ p EXCEPT !.skills = skill_ids ])

\* update_candidate_profile of the service.
update_candidate_profile(p, summary, update_completion) ==
    LET updated == crud_update_summary(p, summary)
    IN  IF update_completion THEN update_profile_completion(updated) ELSE updated

\* update_my_candidate_profile, the PUT /me endpoint: the CRUD update alone.
update_my_candidate_profile(p, summary) == crud_update_summary(p, summary)

\* upload_cv: appends the CV, keeps the last MaxCvUrls, writes cv_urls.
upload_cv(p) ==
    [ p EXCEPT !.cv_urls = IF @ + 1 > MaxCvUrls THEN MaxCvUrls ELSE @ + 1 ]

\* Installs the profile a candidate operation leaves.
CandidateStep(p) ==
    /\ profile' = p
    /\ UNCHANGED << appVars, delivery, assist, query, others >>

AddEducation ==
    /\ profile.education < MaxRecords
    /\ CandidateStep(add_education(profile))

DeleteEducation ==
    \E found \in { profile.education > 0 } :
      CandidateStep(delete_education(profile, found))

AddWorkExperience ==
    /\ profile.experience < MaxRecords
    /\ CandidateStep(add_work_experience(profile))

DeleteWorkExperience ==
    \E found \in { profile.experience > 0 } :
      CandidateStep(delete_work_experience(profile, found))

UpdateJobPreferences == CandidateStep(update_job_preferences(profile))

UpdateSkills ==
    \E skill_ids \in 0 .. MaxRecords :
      CandidateStep(update_skills(profile, skill_ids))

UpdateCandidateProfile ==
    \E summary \in SummaryInputs, update_completion \in BOOLEAN :
      CandidateStep(update_candidate_profile(profile, summary, update_completion))

UpdateMyCandidateProfile ==
    \E summary \in SummaryInputs :
      CandidateStep(update_my_candidate_profile(profile, summary))

UploadCv == CandidateStep(upload_cv(profile))

InitCandidate ==
    /\ InitApplications
    /\ profile = NewProfile
    /\ delivery = Idle
    /\ assist = Idle
    /\ query = Idle

NextCandidate ==
    \/ AddEducation
    \/ DeleteEducation
    \/ AddWorkExperience
    \/ DeleteWorkExperience
    \/ UpdateJobPreferences
    \/ UpdateSkills
    \/ UpdateCandidateProfile
    \/ UpdateMyCandidateProfile
    \/ UploadCv

SpecCandidate == InitCandidate /\ [][NextCandidate]_vars

\* ================================================== notification service
\* (rec_back/app/services/notification.py).  A delivery on a channel either
\* completes or raises; failing is the set of << recipient, channel >> pairs
\* whose delivery raises.

\* Length of the channel list of a call.
MaxChannels == 2

\* Length of the recipient list of a bulk call.
MaxRecipients == 2

NotificationChannel == { "email", "sms", "in_app", "push" }

Recipients == { "r1", "r2" }

\* Sequences over S of length at most n.
SeqsUpTo(S, n) == UNION { [ 1 .. k -> S ] : k \in 0 .. n }

\* The channels of a call that names none.
default_channels(channels) ==
    IF channels = << >> THEN << "email", "in_app" >> ELSE channels

\* _send_email_notification, _send_sms_notification,
\* _create_in_app_notification, _send_push_notification: the delivery on one
\* channel.  The in-app channel writes a row through a session of its own;
\* the others are stubs that write nothing.
deliver(in_app, recipient_id, channel, failing) ==
    IF << recipient_id, channel >> \in failing
    THEN [ raised |-> TRUE, in_app |-> in_app ]
    ELSE [ raised |-> FALSE,
           in_app |-> IF channel = "in_app"
                      THEN Append(in_app, recipient_id) ELSE in_app ]

channel_step_uncaught(acc, recipient_id, channel, failing) ==
    LET sent == deliver(acc.in_app, recipient_id, channel, failing)
    IN  [ acc EXCEPT !.attempted = Append(@, << recipient_id, channel >>),
                     !.in_app = sent.in_app,
                     !.raised = sent.raised ]

\* One turn of the loop of send_notification: the try around the delivery
\* on a channel and its except branch.
channel_step(acc, recipient_id, channel, failing) ==
    LET sent == deliver(acc.in_app, recipient_id, channel, failing)
    IN  [ acc EXCEPT !.attempted = Append(@, << recipient_id, channel >>),
                     !.in_app = sent.in_app,
                     !.success = IF sent.raised THEN FALSE ELSE @ ]

\* The loop of send_notification over the channels left; an exception that
\* leaves a turn ends the loop.
RECURSIVE send_loop(_, _, _, _)
send_loop(acc, recipient_id, channels, failing) ==
    IF channels = << >> \/ acc.raised THEN acc
    ELSE send_loop(channel_step(acc, recipient_id, Head(channels), failing),
                   recipient_id, Tail(channels), failing)

\* send_notification; acc carries the attempts and in-app rows so far.
send_notification(acc, recipient_id, channels, failing) ==
    send_loop([ acc EXCEPT !.success = TRUE ], recipient_id,
              default_channels(channels), failing)

\* The loop of send_bulk_notification over the recipients left.
RECURSIVE bulk_loop(_, _, _, _)
bulk_loop(acc, recipient_ids, channels, failing) ==
    IF recipient_ids = << >> \/ acc.raised THEN acc
    ELSE LET sent == send_notification(acc, Head(recipient_ids), channels, failing)
             counted == IF sent.success
                        THEN [ sent EXCEPT !.success_count = @ + 1 ]
                        ELSE [ sent EXCEPT !.failure_count = @ + 1 ]
         IN  bulk_loop(counted, Tail(recipient_ids), channels, failing)

\* The state of a call before it has attempted anything.
NoAttempt ==
    [ raised |-> FALSE, success |-> TRUE, attempted |-> << >>,
      in_app |-> << >>, success_count |-> 0, failure_count |-> 0 ]

\* send_bulk_notification and the counts it returns.
send_bulk_notification(recipient_ids, channels, failing) ==
    LET done == bulk_loop(NoAttempt, recipient_ids, channels, failing)
    IN  [ done EXCEPT !.success = TRUE ]

\* A call of send_notification returns.
SendNotification ==
    /\ delivery.phase = "called"
    /\ delivery.method = "send_notification"
    /\ delivery' = [ delivery EXCEPT
           !.phase = "returned",
           !.outcome = send_notification(NoAttempt, delivery.recipient_ids[1],
                                         delivery.channels, delivery.failing) ]
    /\ UNCHANGED << appVars, profile, assist, query, others >>

\* A call of send_bulk_notification returns.
SendBulkNotification ==
    /\ delivery.phase = "called"
    /\ delivery.method = "send_bulk_notification"
    /\ delivery' = [ delivery EXCEPT
           !.phase = "returned",
           !.outcome = send_bulk_notification(delivery.recipient_ids,
                                              delivery.channels, delivery.failing) ]
    /\ UNCHANGED << appVars, profile, assist, query, others >>

\* A call the notification service is given. failing holds the pairs of
\* recipient and channel whose delivery raises.
NotificationCall(method, recipient_ids, channels, failing) ==
    [ phase |-> "called", method |-> method, recipient_ids |-> recipient_ids,
      channels |-> channels, failing |-> failing, outcome |-> NoAttempt ]

\* The deliveries a call attempts: only these can fail.
Deliveries(recipient_ids, channels) ==
    { recipient_ids[i] : i \in 1 .. Len(recipient_ids) }
      \X { default_channels(channels)[k] : k \in 1 .. Len(default_channels(channels)) }

InitNotification ==
    /\ InitApplications
    /\ profile = NewProfile
    /\ assist = Idle
    /\ query = Idle
    /\ \E m \in { "send_notification", "send_bulk_notification" },
          ids \in SeqsUpTo(Recipients, MaxRecipients),
          chs \in SeqsUpTo(NotificationChannel, MaxChannels) :
         /\ m = "send_notification" => Len(ids) = 1
         /\ \E f \in SUBSET Deliveries(ids, chs) :
              delivery = NotificationCall(m, ids, chs, f)

NextNotification ==
    \/ SendNotification
    \/ SendBulkNotification

SpecNotification == InitNotification /\ [][NextNotification]_vars

\* ============================================================ AI service
\* (rec_back/app/services/ai_service.py).  A text is a sequence of one-letter
\* strings, so that lower() and the substring test of match_jobs are
\* computed.

\* Skills a CV lists in a call.
MaxCvSkills == 3

\* Jobs loaded into the service in a call.
MaxAiJobs == 2

Python == << "P", "y", "t", "h", "o", "n" >>
Java == << "J", "a", "v", "a" >>
Sql == << "S", "Q", "L" >>
Aws == << "A", "W", "S" >>

\* The names skill_lookup gives for the skill ids of a job: a job with k
\* skills has the first k of them.
JobSkillNames ==
    << Python, Java, Sql, Aws, << "G", "o" >>, << "R", "u", "s", "t" >>,
       << "G", "i", "t" >>, << "L", "i", "n", "u", "x" >>,
       << "B", "a", "s", "h" >>, << "P", "e", "r", "l" >> >>

\* The numbers of skills of the jobs the model loads.
JobSkillCounts == { 0, 1, 4, Len(JobSkillNames) }

\* The skills a CV may list: a name in another case, names as the jobs
\* spell them, and one no job asks for.
CvSkillNames ==
    { << "p", "y", "t", "h", "o", "n" >>, Python, Sql, Java,
      << "C", "o", "b", "o", "l" >> }

\* str.lower on the letters the names use.
LowerLetter(ch) ==
    CASE ch = "P" -> "p" [] ch = "J" -> "j" [] ch = "S" -> "s"
      [] ch = "Q" -> "q" [] ch = "L" -> "l" [] ch = "A" -> "a"
      [] ch = "W" -> "w" [] ch = "G" -> "g" [] ch = "R" -> "r"
      [] ch = "B" -> "b" [] ch = "C" -> "c" [] OTHER -> ch

lower(text) == [ i \in 1 .. Len(text) |-> LowerLetter(text[i]) ]

\* Python's `a in b` on strings.
contains(b, a) ==
    \E i \in 0 .. (Len(b) - Len(a)) : SubSeq(b, i + 1, i + Len(a)) = a

\* The test of match_jobs for one CV skill against one job skill.
skill_matches(skill, js) ==
    \/ contains(lower(js), lower(skill))
    \/ contains(lower(skill), lower(js))

\* matching_skills of match_jobs: the CV skills, in order and with their
\* repetitions, that match some skill of the job.
RECURSIVE matching_skills(_, _)
matching_skills(skills, job_skills) ==
    IF skills = << >> THEN << >>
    ELSE LET rest == matching_skills(Tail(skills), job_skills)
         IN  IF \E i \in 1 .. Len(job_skills) : skill_matches(Head(skills), job_skills[i])
             THEN << Head(skills) >> \o rest
             ELSE rest

\* A score taken over the skills that matched instead of the skills the job
\* asks for.
match_score_over_matching(matching, job_skills) ==
    [ num |-> Len(matching) * 100,
      den |-> IF Len(matching) > 1 THEN Len(matching) ELSE 1 ]

\* match_score of match_jobs, len(matching_skills) / max(len(job_skills), 1)
\* * 100, kept as the exact fraction num / den.
match_score(matching, job_skills) ==
    [ num |-> Len(matching) * 100,
      den |-> IF Len(job_skills) > 1 THEN Len(job_skills) ELSE 1 ]

\* The threshold test of match_jobs: match_score > 30.
above_threshold(score) == score.num > 30 * score.den

\* The entry of match_jobs for the job at position i of self.jobs.
match_entry(skills, job_list, i) ==
    LET matching == matching_skills(skills, job_list[i])
    IN  [ job_id |-> i, match_score |-> match_score(matching, job_list[i]),
          matching_skills |-> matching ]

\* matches.sort(key=match_score, reverse=True): stable, so entries of equal
\* score keep their order.
RECURSIVE sort_by_score(_)
sort_by_score(matches) ==
    IF matches = << >> THEN << >>
    ELSE LET sorted == sort_by_score(SubSeq(matches, 1, Len(matches) - 1))
             last   == matches[Len(matches)]
             ahead  == { k \in 1 .. Len(sorted) :
                          sorted[k].match_score.num * last.match_score.den
                            < last.match_score.num * sorted[k].match_score.den }
             at     == IF ahead = {} THEN Len(sorted) + 1
                       ELSE CHOOSE k \in ahead : \A m \in ahead : k <= m
         IN  SubSeq(sorted, 1, at - 1) \o << last >> \o SubSeq(sorted, at, Len(sorted))

\* The loop of match_jobs over the jobs from position i on.
RECURSIVE collect_matches(_, _, _)
collect_matches(skills, job_list, i) ==
    IF i > Len(job_list) THEN << >>
    ELSE LET entry == match_entry(skills, job_list, i)
         IN  IF above_threshold(entry.match_score)
             THEN << entry >> \o collect_matches(skills, job_list, i + 1)
             ELSE collect_matches(skills, job_list, i + 1)

\* match_jobs, the rule-based matching.
match_jobs(skills, job_list) == sort_by_score(collect_matches(skills, job_list, 1))

\* What an operation of the service gives back: an exception or a value and
\* where the value came from.
Answer(raised, source, value) ==
    [ raised |-> raised, source |-> source, value |-> value ]

\* generate_email, the template-based fallback: it raises ValueError for a
\* template id it does not have.
generate_email(template_known) ==
    IF template_known
    THEN Answer(FALSE, "fallback", << >>)
    ELSE Answer(TRUE, "fallback", << >>)

\* The call of the LLM and the parsing of its reply raise when the call
\* raises or times out.
llm_raises(llm) == llm \in { "raises", "times_out" }

\* analyze_cv_with_openai, generate_interview_questions and
\* generate_job_description: the fallback when there is no client or the try
\* block raises; their fallbacks build their answer from the arguments.
with_fallback(client, llm) ==
    IF ~client THEN Answer(FALSE, "fallback", << >>)
    ELSE IF llm_raises(llm) THEN Answer(FALSE, "fallback", << >>)
    ELSE Answer(FALSE, "llm", << >>)

\* match_jobs_with_openai.
match_jobs_with_openai(client, llm, skills, job_list) ==
    IF ~client THEN Answer(FALSE, "fallback", match_jobs(skills, job_list))
    ELSE IF job_list = << >> THEN Answer(FALSE, "none", << >>)
    ELSE IF llm_raises(llm) THEN Answer(FALSE, "fallback", match_jobs(skills, job_list))
    ELSE Answer(FALSE, "llm", << >>)

\* generate_email_with_openai: an unknown template raises inside the try and
\* is handed, like a failure of the LLM, to generate_email.
generate_email_with_openai(client, llm, template_known) ==
    IF ~client THEN generate_email(template_known)
    ELSE IF ~template_known \/ llm_raises(llm) THEN generate_email(template_known)
    ELSE Answer(FALSE, "llm", << >>)

\* The job lists the service may hold: each job by its skill names.
AiJobLists ==
    SeqsUpTo({ SubSeq(JobSkillNames, 1, k) : k \in JobSkillCounts }, MaxAiJobs)

\* A call of the AI service before it is answered.
AiCall(op, client, llm, known, skills, job_list) ==
    [ phase |-> "called", op |-> op, client |-> client, llm |-> llm,
      template_known |-> known, skills |-> skills, jobs |-> job_list,
      answer |-> Answer(FALSE, "none", << >>) ]

LlmStates == { "answers", "raises", "times_out" }

\* The calls the AI service is given.  Only the matching operations read the
\* skills and jobs, only the email operation the template; match_jobs uses
\* no LLM.
IsAiCall(call) ==
    \/ \E op \in { "analyze_cv_with_openai", "generate_interview_questions",
                   "generate_job_description" },
          client \in BOOLEAN, llm \in LlmStates :
         call = AiCall(op, client, llm, TRUE, << >>, << >>)
    \/ \E client \in BOOLEAN, llm \in LlmStates, known \in BOOLEAN :
         call = AiCall("generate_email_with_openai", client, llm, known, << >>, << >>)
    \/ \E client \in BOOLEAN, llm \in LlmStates,
          skills \in SeqsUpTo(CvSkillNames, MaxCvSkills), job_list \in AiJobLists :
         call = AiCall("match_jobs_with_openai", client, llm, TRUE, skills, job_list)
    \/ \E skills \in SeqsUpTo(CvSkillNames, MaxCvSkills), job_list \in AiJobLists :
         call = AiCall("match_jobs", TRUE, "answers", TRUE, skills, job_list)

\* The answer of the operation the call names.
ai_answer(call) ==
    CASE call.op = "match_jobs" ->
           Answer(FALSE, "fallback", match_jobs(call.skills, call.jobs))
      [] call.op = "match_jobs_with_openai" ->
           match_jobs_with_openai(call.client, call.llm, call.skills, call.jobs)
      [] call.op = "generate_email_with_openai" ->
           generate_email_with_openai(call.client, call.llm, call.template_known)
      [] OTHER -> with_fallback(call.client, call.llm)

AiReturn(op) ==
    /\ assist.phase = "called"
    /\ assist.op = op
    /\ assist' = [ assist EXCEPT !.phase = "returned", !.answer = ai_answer(assist) ]
    /\ UNCHANGED << appVars, profile, delivery, query, others >>

AnalyzeCvWithOpenai == AiReturn("analyze_cv_with_openai")

MatchJobsWithOpenai == AiReturn("match_jobs_with_openai")

MatchJobs == AiReturn("match_jobs")

GenerateEmailWithOpenai == AiReturn("generate_email_with_openai")

GenerateInterviewQuestions == AiReturn("generate_interview_questions")

GenerateJobDescription == AiReturn("generate_job_description")

InitAi ==
    /\ InitApplications
    /\ profile = NewProfile
    /\ delivery = Idle
    /\ query = Idle
    /\ IsAiCall(assist)

NextAi ==
    \/ AnalyzeCvWithOpenai
    \/ MatchJobsWithOpenai
    \/ MatchJobs
    \/ GenerateEmailWithOpenai
    \/ GenerateInterviewQuestions
    \/ GenerateJobDescription

SpecAi == InitAi /\ [][NextAi]_vars

\* ==================================================== overlapping requests
\* Requests of the application workflow that run at the same time
\* (services/application.py). Each request has a session of its own: it
\* reads the committed rows, decides on what it read, and its writes reach
\* the tables at its commit. Nothing locks a row between the read and the
\* commit, and the tables carry no unique constraint on (candidate_id,
\* job_id) and no version column (models/application.py). An UPDATE writes
\* the columns the request changed, with the values the request computed.

\* The requests between their reads and their commit.
Pending == { r \in 1 .. MaxRequests : requests[r].phase = "read" }

\* Room in the history table for the row of one more request.
HasRoom == Cardinality(status_history) + Cardinality(Pending) < MaxHistoryRows

\* The tables after the commit of a request.
Commit(r, d) ==
    /\ jobs' = d.jobs
    /\ applications' = d.applications
    /\ status_history' = d.status_history
    /\ placements' = d.placements
    /\ status_changes' = CountChanges(DB, d)
    /\ requests' = [ requests EXCEPT ![r] = IdleRequest ]
    /\ UNCHANGED << lastOp, profile, delivery, assist, query >>
    /\ UNCHANGED << consultant_profiles, employer_profiles >>

\* The request reads and goes on to its writes.
Read(r, request) ==
    /\ requests' = [ requests EXCEPT ![r] = request ]
    /\ UNCHANGED << appVars, profile, delivery, assist, query >>
    /\ UNCHANGED << consultant_profiles, employer_profiles >>

\* The reads of create_application: the candidate profile, the job with its
\* status and counter, the duplicate check. The request returns here when
\* one of the checks stops it.
BeginCreate ==
    \E r \in 1 .. MaxRequests :
      /\ requests[r].phase = "idle"
      /\ HasRoom
      /\ \E u \in Users, j \in Jobs :
           IF \/ candidate_profile(u) = "none"
              \/ ~job_is_open(DB, j)
              \/ Existing(DB, candidate_profile(u), j) # {}
           THEN UNCHANGED vars
           ELSE Read(r, [ IdleRequest EXCEPT
                            !.op = "create_application", !.phase = "read",
                            !.user_id = u, !.job_id = j,
                            !.seen_count = jobs[j].application_count ])

\* The writes of create_application on the tables d for a request that read
\* the counter seen_count: the row, its first history row, and
\* job.application_count = (job.application_count or 0) + 1 on the job
\* object the request loaded.
create_application_writes(d, candidate_user_id, job_id, seen_count) ==
    LET id       == Len(d.applications) + 1
        created  == crud_create(d, candidate_profile(candidate_user_id), job_id,
                                initial_status,
                                AssignedConsultant(candidate_profile(candidate_user_id)))
        recorded == initial_status_history(created, id)
    IN  [ recorded EXCEPT !.jobs[job_id].application_count = seen_count + 1 ]

CommitCreate ==
    \E r \in Pending :
      /\ requests[r].op = "create_application"
      /\ Commit(r, create_application_writes(DB, requests[r].user_id,
                                             requests[r].job_id,
                                             requests[r].seen_count))

\* The read of update_application_status: the Application row with its
\* status; the request returns None when there is no such row.
BeginUpdate ==
    \E r \in 1 .. MaxRequests :
      /\ requests[r].phase = "idle"
      /\ HasRoom
      /\ \E id \in CallIds, new \in Statuses :
           IF id \notin DOMAIN applications
           THEN UNCHANGED vars
           ELSE Read(r, [ IdleRequest EXCEPT
                            !.op = "update_application_status",
                            !.phase = "read", !.application_id = id,
                            !.new_status = new,
                            !.seen_status = applications[id].status ])

\* The rest of update_application_status on the tables d for a request that
\* read the status seen_status: the transition is checked on the row as the
\* request read it, and the status, the history row and the effects of a
\* hire are written over the tables as they are.
update_application_status_writes(d, application_id, new_status, seen_status) ==
    LET loaded == [ d EXCEPT !.applications[application_id].status = seen_status ]
        done   == update_application_status(loaded, application_id, new_status,
                                            FALSE, FALSE, "none")
    IN  IF done.result = None THEN d ELSE done.db

CommitUpdate ==
    \E r \in Pending :
      /\ requests[r].op = "update_application_status"
      /\ Commit(r, update_application_status_writes(DB, requests[r].application_id,
                                                    requests[r].new_status,
                                                    requests[r].seen_status))

NextConcurrent ==
    \/ BeginCreate
    \/ CommitCreate
    \/ BeginUpdate
    \/ CommitUpdate

SpecConcurrent == Init /\ [][NextConcurrent]_vars

\* ============================================================= CV parser
\* The fallback CV parser's work-experience section
\* (services/ai_service.py, _extract_experience). An entry of the section is
\* the list of its parts between "|"; the third part, the duration, is kept
\* as the words the years pattern reads.

\* Entries of the WORK EXPERIENCE section of a CV.
MaxCvEntries == 2

\* The years in which a CV is parsed.
CurrentYears == { 2024, 2026 }

YearWords == { "2018", "2020", "2022" }

\* int() on the year words.
int(word) ==
    CASE word = "2018" -> 2018 [] word = "2020" -> 2020 [] word = "2022" -> 2022

\* The durations the entries carry; the last two have no range the pattern
\* accepts.
Durations ==
    { << "2018", "-", "Present" >>, << "2020", "-", "2022" >>,
      << "Since", "2020", "-", "Present" >>, << "2018", "-", "present" >>,
      << "2020" >> }

\* entry.split('|'): the number of parts, and the duration when there are
\* at least three.
CvEntries == [ parts : { 2, 3 }, duration : Durations ]

\* years_pattern.search(duration): the positions where
\* (\d{4})\s*-\s*(Present|\d{4}) matches.
years_matches(duration) ==
    { i \in 1 .. (Len(duration) - 2) :
        /\ duration[i] \in YearWords
        /\ duration[i + 1] = "-"
        /\ duration[i + 2] \in YearWords \cup { "Present" } }

\* The years one entry adds to total_years with a fixed end year for
\* "Present" entries.
years_duration_until(entry, present_year) ==
    IF entry.parts >= 3 /\ years_matches(entry.duration) # {}
    THEN LET at         == CHOOSE i \in years_matches(entry.duration) :
                             \A k \in years_matches(entry.duration) : i <= k
             start_year == int(entry.duration[at])
             end_year   == IF entry.duration[at + 2] = "Present"
                           THEN present_year
                           ELSE int(entry.duration[at + 2])
         IN  end_year - start_year
    ELSE 0

\* years_duration of _extract_experience: "Present" ends in 2024.
years_duration(entry) == years_duration_until(entry, 2024)

\* The loop of _extract_experience: the entries kept and total_years.
RECURSIVE extract_experience(_)
extract_experience(entries) ==
    IF entries = << >> THEN [ experience |-> << >>, total_years |-> 0 ]
    ELSE LET before == extract_experience(SubSeq(entries, 1, Len(entries) - 1))
             entry  == entries[Len(entries)]
         IN  IF entry.parts >= 3
             THEN [ experience  |-> Append(before.experience, entry),
                    total_years |-> before.total_years + years_duration(entry) ]
             ELSE before

\* A CV handed to the parser in the year `now`.
CvCall(now, entries) ==
    [ phase |-> "called", op |-> "_extract_experience", now |-> now,
      entries |-> entries,
      answer |-> [ experience |-> << >>, total_years |-> 0 ] ]

ExtractExperience ==
    /\ assist.phase = "called"
    /\ assist.op = "_extract_experience"
    /\ assist' = [ assist EXCEPT !.phase = "returned",
                                 !.answer = extract_experience(assist.entries) ]
    /\ UNCHANGED << appVars, profile, delivery, query, others >>

InitCv ==
    /\ InitApplications
    /\ profile = NewProfile
    /\ delivery = Idle
    /\ query = Idle
    /\ \E now \in CurrentYears, entries \in SeqsUpTo(CvEntries, MaxCvEntries) :
         assist = CvCall(now, entries)

NextCv == ExtractExperience

SpecCv == InitCv /\ [][NextCv]_vars

\* ============================================================ consultants
\* Consultant profiles and their manager relation (models/consultant.py,
\* services/consultant.py). Only the columns the relation needs are kept:
\* update_performance_metrics writes counters alone.

\* Consultant profiles in the table.
MaxConsultantProfiles == 3

\* Users with the consultant role; the user after them has another role.
ConsultantUsers == 1 .. MaxConsultantProfiles

AllUsers == 1 .. (MaxConsultantProfiles + 1)

\* ConsultantProfile.manager_id as a column: None or the id of a row, by the
\* foreign key on consultant_profiles.id.
manager_id_allowed(rows, manager_id) ==
    manager_id = None \/ manager_id \in DOMAIN rows

\* The profiles whose manager chain, read from the stored rows, passes
\* through the profile id: its descendants.
RECURSIVE reports_within(_, _, _)
reports_within(rows, id, steps) ==
    IF steps = 0 THEN {}
    ELSE LET direct == { i \in DOMAIN rows : rows[i].manager_id = id }
         IN  direct \cup UNION { reports_within(rows, i, steps - 1) : i \in direct }

descendants(rows, id) == reports_within(rows, id, Len(rows))

\* consultant_crud.get_by_user_id.
get_by_user_id(rows, user_id) ==
    { i \in DOMAIN rows : rows[i].user_id = user_id }

\* consultant_crud.create: the row is added with the next id.
consultant_crud_create(rows, user_id, manager_id) ==
    Append(rows, [ user_id |-> user_id, manager_id |-> manager_id ])

\* A consultant_crud.update that stores whatever manager_id it is handed.
consultant_crud_update_unchecked(rows, id, manager) ==
    IF id \notin DOMAIN rows \/ manager = {} THEN rows
    ELSE [ rows EXCEPT ![id].manager_id = CHOOSE m \in manager : TRUE ]

\* consultant_crud.update: the fields the update data sets are stored; a
\* manager_id that is the profile itself or one of its descendants is
\* refused and the row stays as it was. manager is the set holding the
\* manager_id of the update data, empty when the data does not set it.
consultant_crud_update(rows, id, manager) ==
    IF id \notin DOMAIN rows \/ manager = {} THEN rows
    ELSE LET m == CHOOSE x \in manager : TRUE
         IN  IF m = id \/ m \in descendants(rows, id) THEN rows
             ELSE [ rows EXCEPT ![id].manager_id = m ]

\* create_consultant_profile: None for a user that is no consultant, the
\* existing profile for a user that has one, otherwise a new row.
create_consultant_profile(rows, user_id, manager_id) ==
    IF user_id \notin ConsultantUsers THEN rows
    ELSE IF get_by_user_id(rows, user_id) # {} THEN rows
    ELSE consultant_crud_create(rows, user_id, manager_id)

\* update_consultant_profile: the update goes to consultant_crud.update as
\* it is given.
update_consultant_profile(rows, consultant_id, manager) ==
    consultant_crud_update(rows, consultant_id, manager)

CreateConsultantProfile ==
    /\ Len(consultant_profiles) < MaxConsultantProfiles
    /\ \E user_id \in AllUsers, manager_id \in 0 .. MaxConsultantProfiles :
         /\ manager_id_allowed(consultant_profiles, manager_id)
         /\ consultant_profiles'
              = create_consultant_profile(consultant_profiles, user_id, manager_id)
    /\ UNCHANGED << appVars, profile, delivery, assist, query, employer_profiles, requests >>

UpdateConsultantProfile ==
    /\ \E consultant_id \in 1 .. MaxConsultantProfiles,
          manager \in { {} } \cup { { m } : m \in 0 .. MaxConsultantProfiles } :
         /\ \A m \in manager : manager_id_allowed(consultant_profiles, m)
         /\ consultant_profiles'
              = update_consultant_profile(consultant_profiles, consultant_id, manager)
    /\ UNCHANGED << appVars, profile, delivery, assist, query, employer_profiles, requests >>

InitConsultant ==
    /\ InitApplications
    /\ profile = NewProfile
    /\ delivery = Idle
    /\ assist = Idle
    /\ query = Idle

NextConsultant == CreateConsultantProfile \/ UpdateConsultantProfile

SpecConsultant == InitConsultant /\ [][NextConsultant]_vars

\* =================================================================== jobs
\* Publishing and closing a job (services/job.py). The jobs table is the one
\* of the application workflow; lastOp holds the call being answered. The
\* service reads EmployerProfile.can_post_jobs, which the model keeps as a
\* column of the employer profile. update_job_counts recounts the company's
\* jobs and writes no job row.

Companies == { "co1", "co2" }

\* Job.company_id.
company_id(job_id) == IF job_id = "j1" THEN "co1" ELSE "co2"

\* The users that call the job service: an employer, an admin, a candidate
\* and an id no User row has.
JobUsers == { "e1", "a1", "u1", "nobody" }

\* User.role; "none" for a user that does not exist.
user_role(user_id) ==
    CASE user_id = "e1" -> "employer" [] user_id = "a1" -> "admin"
      [] user_id = "u1" -> "candidate" [] OTHER -> "none"

\* employer_crud.get_hiring_permissions: an employer profile of the user in
\* the company with can_post_jobs set.
get_hiring_permissions(rows, user_id, company) ==
    \E r \in rows : /\ r.user_id = user_id
                    /\ r.company_id = company
                    /\ r.can_post_jobs

\* _verify_posting_permission.
verify_posting_permission(rows, user_id, company) ==
    \/ get_hiring_permissions(rows, user_id, company)
    \/ user_role(user_id) \in { "admin", "superadmin" }

\* The outcome of a call of the job service: the jobs table it leaves, the
\* job it returns (NoJob for None) and whether it raised.
JobRet(table, result, raised) ==
    [ jobs |-> table, result |-> result, raised |-> raised ]

\* A publish_job that publishes from any status.
publish_job_any_status(table, rows, job_id, user_id, lookup) ==
    IF job_id \notin DOMAIN table THEN JobRet(table, NoJob, FALSE)
    ELSE IF lookup = "raises" THEN JobRet(table, NoJob, TRUE)
    ELSE IF ~verify_posting_permission(rows, user_id, company_id(job_id))
    THEN JobRet(table, NoJob, FALSE)
    ELSE JobRet([ table EXCEPT ![job_id].status = "OPEN" ], job_id, FALSE)

\* publish_job. lookup = "raises" makes the permission query raise.
publish_job(table, rows, job_id, user_id, lookup) ==
    IF job_id \notin DOMAIN table THEN JobRet(table, NoJob, FALSE)
    ELSE IF table[job_id].status # "DRAFT" THEN JobRet(table, job_id, FALSE)
    ELSE IF lookup = "raises" THEN JobRet(table, NoJob, TRUE)
    ELSE IF ~verify_posting_permission(rows, user_id, company_id(job_id))
    THEN JobRet(table, NoJob, FALSE)
    ELSE JobRet([ table EXCEPT ![job_id].status = "OPEN" ], job_id, FALSE)

\* close_job.
close_job(table, rows, job_id, user_id, lookup) ==
    IF job_id \notin DOMAIN table THEN JobRet(table, NoJob, FALSE)
    ELSE IF table[job_id].status \notin { "OPEN", "DRAFT" }
    THEN JobRet(table, job_id, FALSE)
    ELSE IF lookup = "raises" THEN JobRet(table, NoJob, TRUE)
    ELSE IF ~verify_posting_permission(rows, user_id, company_id(job_id))
    THEN JobRet(table, NoJob, FALSE)
    ELSE JobRet([ table EXCEPT ![job_id].status = "CLOSED" ], job_id, FALSE)

\* Installs the outcome r of a call of the job service.
JobCall(op, user_id, job_id, r) ==
    /\ jobs' = r.jobs
    /\ lastOp' = [ op |-> op, user_id |-> user_id, job_id |-> job_id,
                   result |-> r.result, raised |-> r.raised,
                   effects |-> r.jobs # jobs ]
    /\ UNCHANGED << applications, status_history, placements, status_changes >>
    /\ UNCHANGED << profile, delivery, assist, query, others >>

PublishJob ==
    \E user_id \in JobUsers, job_id \in Jobs \cup { NoJob },
       lookup \in { "answers", "raises" } :
      JobCall("publish_job", user_id, job_id,
              publish_job(jobs, employer_profiles, job_id, user_id, lookup))

CloseJob ==
    \E user_id \in JobUsers, job_id \in Jobs \cup { NoJob },
       lookup \in { "answers", "raises" } :
      JobCall("close_job", user_id, job_id,
              close_job(jobs, employer_profiles, job_id, user_id, lookup))

\* Jobs in any status, as update_job and the hires leave them, and any
\* employer profiles of the employer.
InitJob ==
    /\ jobs \in [ Jobs -> [ status : JobStatus, application_count : { 0 } ] ]
    /\ applications = << >>
    /\ status_history = {}
    /\ placements = [ k \in Consultants |-> 0 ]
    /\ status_changes = << >>
    /\ lastOp = NoCall
    /\ profile = NewProfile
    /\ delivery = Idle
    /\ assist = Idle
    /\ query = Idle
    /\ consultant_profiles = << >>
    /\ requests = NoRequests
    /\ employer_profiles
         \in SUBSET [ user_id : { "e1" }, company_id : Companies,
                      can_post_jobs : BOOLEAN ]

NextJob == PublishJob \/ CloseJob

SpecJob == InitJob /\ [][NextJob]_vars

\* ================================================================ search
\* The candidate search (crud/candidate.py), the company search
\* (crud/employer.py) and the job list (api/v1/jobs.py). Each reads one
\* table; query.service names it and query.rows holds it, in insertion
\* order, a row's id being its position.

\* ---------------------------------------------------------------- bounds
\* Rows of the users table.
MaxUsers == 2
\* Rows of the companies table.
MaxCompanies == 2
\* Jobs in fake_data/jobs.json.
MaxJobData == 2
\* The highest page a request asks for.
MaxPage == 2
\* The highest page_size or limit a request asks for.
MaxPageSize == 2

\* An optional string field of a request that is not set.
Null == "null"

Ann == << "A", "n", "n" >>
Bob == << "B", "o", "b" >>

\* The people who register.
People ==
    { [ first_name |-> Ann, last_name |-> << "L", "e", "e" >>,
        email |-> << "a", "@", "x" >> ],
      [ first_name |-> Bob, last_name |-> << "R", "a", "y" >>,
        email |-> << "b", "@", "x" >> ],
      [ first_name |-> << "C", "a", "l" >>, last_name |-> << "A", "n", "g" >>,
        email |-> << "c", "@", "x" >> ] }

Roles == { "CANDIDATE", "EMPLOYER" }

\* The text a request searches for; empty when it has none.
QueryTexts == { << >>, << "a", "n" >> }

\* The skills a candidate search asks for; empty when it asks for none.
FilterSkills == { << >>, << Sql >> }

\* The skills update_skills gives a candidate.
CandidateSkillSets == { { Sql } }

NoRequest == [ endpoint |-> "none" ]
NoResponse == [ status |-> "none" ]

SearchState(service, rows) ==
    [ phase |-> "ready", service |-> service, rows |-> rows, now |-> 0,
      call |-> NoRequest, response |-> NoResponse ]

smaller(a, b) == IF a < b THEN a ELSE b

Ids(rows) == [ i \in 1 .. Len(rows) |-> i ]

\* column ILIKE '%term%'
ilike(column, term) == contains(lower(column), lower(term))

\* query.offset(offset).limit(limit), and a Python slice [offset:offset+limit]
paginate(rows, offset, limit) ==
    SubSeq(rows, offset + 1, smaller(offset + limit, Len(rows)))

\* The orders in which a query may hand out its rows.
Orderings(rows) ==
    LET n == Len(rows)
        Bijections == { f \in [ 1 .. n -> 1 .. n ] :
                          \A a, b \in 1 .. n : a # b => f[a] # f[b] }
    IN  { [ i \in 1 .. n |-> rows[f[i]] ] : f \in Bijections }

Response(items, total, page, page_size, pages) ==
    [ status |-> "ok", items |-> items, total |-> total, page |-> page,
      page_size |-> page_size, total_pages |-> pages ]

\* ------------------------------------------------------- users, profiles
\* register of api/v1/auth.py: a user row and no profile row.
register(users, person, role) ==
    Append(users, [ first_name |-> person.first_name,
                    last_name |-> person.last_name, email |-> person.email,
                    role |-> role, has_profile |-> FALSE, skills |-> {} ])

\* _create_role_profile: a candidate gets a CandidateProfile.
create_role_profile(user) ==
    IF user.role = "CANDIDATE" THEN [ user EXCEPT !.has_profile = TRUE ] ELSE user

\* register_user of services/auth.py.
register_user(users, person, role) ==
    LET added == register(users, person, role)
    IN  [ added EXCEPT ![Len(added)] = create_role_profile(@) ]

\* BaseService.delete on the candidate service: the profile row goes, the
\* user row stays.
delete(users, i) ==
    [ users EXCEPT ![i] = [ @ EXCEPT !.has_profile = FALSE, !.skills = {} ] ]

\* update_skills: the candidate's skills are replaced.
replace_skills(users, i, skill_names) ==
    [ users EXCEPT ![i] = [ @ EXCEPT !.skills = skill_names ] ]

existing_user(users, person) ==
    \E i \in 1 .. Len(users) : users[i].email = person.email

\* ------------------------------------------------------ candidate search
CandidateSearchFilters(q, skills, page, page_size, sort_by, sort_order) ==
    [ query |-> q, skills |-> skills, page |-> page, page_size |-> page_size,
      sort_by |-> sort_by, sort_order |-> sort_order ]

\* What goes wrong during a request: nothing, the count or page query
\* ("query"), the load of one user's profile ("profile"), the conversion of
\* one candidate ("convert"), the building of the response ("response").
NoFailure == [ kind |-> "none", user |-> 0 ]

Failures(users) ==
    { NoFailure, [ kind |-> "query", user |-> 0 ],
      [ kind |-> "response", user |-> 0 ] }
      \cup { [ kind |-> k, user |-> i ] :
               k \in { "profile", "convert" }, i \in 1 .. Len(users) }

\* The filter of get_multi_with_search.
user_matches(u, filters) ==
    /\ u.role = "CANDIDATE"
    /\ filters.query # << >> =>
         \/ ilike(u.first_name, filters.query)
         \/ ilike(u.last_name, filters.query)
         \/ ilike(u.email, filters.query)

\* The user ids the query selects, in table order.
candidate_query(users, filters) ==
    SelectSeq(Ids(users), LAMBDA i : user_matches(users[i], filters))

candidate_get_multi_with_search_counted(users, matched, filters, failing) ==
    IF failing.kind = "query"
    THEN [ candidates |-> << >>, total |-> Len(matched) ]
    ELSE [ candidates |->
             SelectSeq(paginate(matched, (filters.page - 1) * filters.page_size,
                                filters.page_size),
                       LAMBDA i : users[i].has_profile),
           total |-> Len(matched) ]

\* CRUDCandidateProfile.get_multi_with_search; matched is the selected
\* user ids in the order the database hands them out (the query has no
\* ORDER BY).
candidate_get_multi_with_search(users, matched, filters, failing) ==
    IF failing.kind = "query"
    THEN [ candidates |-> << >>, total |-> 0 ]
    ELSE LET total == Len(matched)
             offset == (filters.page - 1) * filters.page_size
             candidate_user_ids == paginate(matched, offset, filters.page_size)
             loaded(i) ==
                 /\ ~ ( failing.kind = "profile" /\ failing.user = i )
                 /\ users[i].has_profile
         IN  [ candidates |-> SelectSeq(candidate_user_ids, loaded),
               total |-> total ]

total_pages(total, page_size) ==
    IF total > 0 THEN ( total + page_size - 1 ) \div page_size ELSE 1

\* The body shared by get_all_candidates and search_candidates.
candidate_list_response(users, matched, filters, failing) ==
    LET result == candidate_get_multi_with_search(users, matched, filters, failing)
        converted(i) == ~ ( failing.kind = "convert" /\ failing.user = i )
    IN  IF failing.kind = "response"
        THEN Response(<< >>, 0, filters.page, filters.page_size, 1)
        ELSE Response(SelectSeq(result.candidates, converted), result.total,
                      filters.page, filters.page_size,
                      total_pages(result.total, filters.page_size))

\* The filters get_all_candidates builds from skip and limit.
get_all_candidates(skip, limit) ==
    CandidateSearchFilters(<< >>, << >>, ( skip \div limit ) + 1, limit,
                           "updated_at", "desc")

\* -------------------------------------------------------- company search
Acme == << "A", "c", "m", "e" >>
Bolt == << "B", "o", "l", "t" >>
CompanyNames == { Acme, Bolt }

\* The place of a name in the order of the database's collation.
collation(name) == IF name = Acme THEN 1 ELSE 2

\* create_company_with_admin: a new row of the companies table. The job
\* service, which this model does not run, keeps active_jobs: a company
\* has none.
create_company_with_admin(companies, now, name) ==
    Append(companies, [ name |-> name, is_verified |-> FALSE,
                        active_jobs |-> 0,
                        created_at |-> now, updated_at |-> now ])

\* verify_company; an already verified row is not written again.
verify_company(companies, now, i) ==
    IF companies[i].is_verified THEN companies
    ELSE [ companies EXCEPT ![i] = [ @ EXCEPT !.is_verified = TRUE,
                                                !.updated_at = now ] ]

\* is_verified is a set: empty when the request does not filter on it.
CompanySearchFilters(q, is_verified, page, page_size, sort_by, sort_order) ==
    [ query |-> q, is_verified |-> is_verified, page |-> page,
      page_size |-> page_size, sort_by |-> sort_by, sort_order |-> sort_order ]

\* The sort keys the schema's regex lets through.
CompanySortKeys == { "created_at", "updated_at", "name", "active_jobs" }

\* The validation of CompanySearchFilters.
valid_company_filters(filters) ==
    /\ filters.page >= 1
    /\ filters.page_size >= 1 /\ filters.page_size <= 100
    /\ filters.sort_by \in CompanySortKeys \cup { Null }
    /\ filters.sort_order \in { "asc", "desc", Null }

\* The filter of get_multi_with_search; the filters on industry, size,
\* location, premium and founding year are further conjuncts of the same
\* form on columns this model does not carry.
company_matches(c, filters) ==
    /\ filters.query # << >> => ilike(c.name, filters.query)
    /\ filters.is_verified # {} => c.is_verified \in filters.is_verified

company_query(companies, filters) ==
    SelectSeq(Ids(companies), LAMBDA i : company_matches(companies[i], filters))

order_column(c, sort_by) ==
    CASE sort_by = "name" -> collation(c.name)
      [] sort_by = "active_jobs" -> c.active_jobs
      [] sort_by = "updated_at" -> c.updated_at
      [] OTHER -> c.created_at

\* The orders ORDER BY allows: rows with equal keys come in any order.
order_by(companies, matched, sort_by, sort_order) ==
    { o \in Orderings(matched) :
        \A a, b \in 1 .. Len(o) :
          a < b =>
            IF sort_order = "asc"
            THEN order_column(companies[o[a]], sort_by) <= order_column(companies[o[b]], sort_by)
            ELSE order_column(companies[o[a]], sort_by) >= order_column(companies[o[b]], sort_by) }

\* CRUDCompany.get_multi_with_search; ordered is the selected ids as the
\* ORDER BY hands them out.
company_get_multi_with_search(ordered, filters) ==
    LET total == Len(ordered)
        offset == (filters.page - 1) * filters.page_size
    IN  [ companies |-> paginate(ordered, offset, filters.page_size),
          total |-> total ]

\* --------------------------------------------------------------- job list
Open == << "o", "p", "e", "n" >>
Closed == << "c", "l", "o", "s", "e", "d" >>

\* Jobs as get_all_data formats them.
JobRows ==
    { [ title |-> << "A", "P", "I" >>, status |-> Open, skills |-> << Python, Sql >> ],
      [ title |-> Sql, status |-> Closed, skills |-> << Java >> ],
      [ title |-> Aws, status |-> Open, skills |-> << >> ] }

StatusInputs == { << >>, Open, << "C", "l", "o", "s", "e", "d" >> }
SkillInputs == { << >>, << "s", "q", "l" >>, << "S", "Q" >> }
SearchInputs == { << >>, << "s", "q" >> }

has_skill(j, skill) ==
    \E k \in 1 .. Len(j.skills) : lower(skill) = lower(j.skills[k])

\* The filters of get_jobs; office_id and company_id are equalities of
\* the same form, and search also reads companyName, description,
\* location and requirements.
job_matches(j, status, skill, search) ==
    /\ status # << >> => lower(j.status) = lower(status)
    /\ skill # << >> => has_skill(j, skill)
    /\ search # << >> =>
         \/ contains(lower(j.title), lower(search))
         \/ \E k \in 1 .. Len(j.skills) : contains(lower(j.skills[k]), lower(search))

get_jobs(data, status, skill, search, skip, limit) ==
    LET found == SelectSeq(Ids(data), LAMBDA i : job_matches(data[i], status, skill, search))
        total_count == Len(found)
    IN  Response(paginate(found, skip, limit), total_count,
                 ( skip \div limit ) + 1, limit,
                 ( total_count + limit - 1 ) \div limit)

\* --------------------------------------------------------------- actions
\* No request of the service is being answered.
Ready(service) == query.phase = "ready" /\ query.service = service

SearchStep(q) ==
    /\ query' = q
    /\ UNCHANGED << appVars, profile, delivery, assist, others >>

Answered(call, response) ==
    [ query EXCEPT !.phase = "returned", !.call = call, !.response = response ]

Register ==
    /\ Ready("candidates")
    /\ Len(query.rows) < MaxUsers
    /\ \E person \in People, role \in Roles :
         /\ ~ existing_user(query.rows, person)
         /\ SearchStep([ query EXCEPT !.rows = register(@, person, role) ])

RegisterUser ==
    /\ Ready("candidates")
    /\ Len(query.rows) < MaxUsers
    /\ \E person \in People, role \in Roles :
         /\ ~ existing_user(query.rows, person)
         /\ SearchStep([ query EXCEPT !.rows = register_user(@, person, role) ])

DeleteCandidate ==
    /\ Ready("candidates")
    /\ \E i \in 1 .. Len(query.rows) :
         /\ query.rows[i].has_profile
         /\ SearchStep([ query EXCEPT !.rows = delete(@, i) ])

ReplaceSkills ==
    /\ Ready("candidates")
    /\ \E i \in 1 .. Len(query.rows), skill_names \in CandidateSkillSets :
         /\ query.rows[i].has_profile
         /\ SearchStep([ query EXCEPT !.rows = replace_skills(@, i, skill_names) ])

CandidateRequest(endpoint, filters, failing, matched) ==
    SearchStep(Answered([ endpoint |-> endpoint, filters |-> filters,
                          failing |-> failing, order |-> matched ],
                        candidate_list_response(query.rows, matched, filters, failing)))

SearchCandidates ==
    /\ Ready("candidates")
    /\ \E q \in QueryTexts, skills \in FilterSkills, page \in 1 .. MaxPage,
          page_size \in 1 .. MaxPageSize, sort_by \in { "no_such_key" },
          failing \in Failures(query.rows) :
         LET filters == CandidateSearchFilters(q, skills, page, page_size, sort_by, "desc")
         IN  \E matched \in Orderings(candidate_query(query.rows, filters)) :
               CandidateRequest("search_candidates", filters, failing, matched)

GetAllCandidates ==
    /\ Ready("candidates")
    /\ \E skip \in 0 .. MaxUsers, limit \in 1 .. MaxPageSize,
          failing \in Failures(query.rows) :
         LET filters == get_all_candidates(skip, limit)
         IN  \E matched \in Orderings(candidate_query(query.rows, filters)) :
               CandidateRequest("get_all_candidates", filters, failing, matched)

CreateCompanyWithAdmin ==
    /\ Ready("companies")
    /\ Len(query.rows) < MaxCompanies
    /\ \E name \in CompanyNames :
         SearchStep([ query EXCEPT
                        !.rows = create_company_with_admin(@, query.now + 1, name),
                        !.now = @ + 1 ])

VerifyCompany ==
    /\ Ready("companies")
    /\ \E i \in 1 .. Len(query.rows) :
         /\ ~ query.rows[i].is_verified
         /\ SearchStep([ query EXCEPT
                           !.rows = verify_company(@, query.now + 1, i),
                           !.now = @ + 1 ])

SearchCompanies ==
    /\ Ready("companies")
    /\ \E q \in QueryTexts, is_verified \in { {}, { TRUE } },
          page \in 1 .. MaxPage, page_size \in 1 .. MaxPageSize,
          sort_by \in CompanySortKeys \cup { Null, "no_such_key" },
          sort_order \in { "asc", "desc" } :
         LET filters == CompanySearchFilters(q, is_verified, page, page_size, sort_by, sort_order)
             call(ordered) == [ endpoint |-> "search_companies", filters |-> filters,
                                failing |-> NoFailure, order |-> ordered ]
         IN  IF ~ valid_company_filters(filters)
             THEN SearchStep(Answered(call(<< >>), [ status |-> "rejected" ]))
             ELSE \E ordered \in order_by(query.rows, company_query(query.rows, filters),
                                          filters.sort_by, filters.sort_order) :
                    LET result == company_get_multi_with_search(ordered, filters)
                    IN  SearchStep(Answered(call(ordered),
                                            Response(result.companies, result.total,
                                                     filters.page, filters.page_size,
                                                     total_pages(result.total, filters.page_size))))

GetJobs ==
    /\ Ready("jobs")
    /\ \E status \in StatusInputs, skill \in SkillInputs, search \in SearchInputs,
          skip \in 0 .. MaxJobData, limit \in 1 .. MaxPageSize :
         SearchStep(Answered([ endpoint |-> "get_jobs", status |-> status,
                               skill |-> skill, search |-> search,
                               skip |-> skip, limit |-> limit,
                               failing |-> NoFailure ],
                             get_jobs(query.rows, status, skill, search, skip, limit)))

\* The response has gone to the client.
Respond ==
    /\ query.phase = "returned"
    /\ query' = [ query EXCEPT !.phase = "ready", !.call = NoRequest,
                               !.response = NoResponse ]
    /\ UNCHANGED << appVars, profile, delivery, assist, others >>

InitSearch ==
    /\ InitApplications
    /\ profile = NewProfile
    /\ delivery = Idle
    /\ assist = Idle
    /\ \/ query = SearchState("candidates", << >>)
       \/ query = SearchState("companies", << >>)
       \/ \E data \in SeqsUpTo(JobRows, MaxJobData) : query = SearchState("jobs", data)

NextSearch ==
    \/ Register
    \/ RegisterUser
    \/ DeleteCandidate
    \/ ReplaceSkills
    \/ SearchCandidates
    \/ GetAllCandidates
    \/ CreateCompanyWithAdmin
    \/ VerifyCompany
    \/ SearchCompanies
    \/ GetJobs
    \/ Respond

SpecSearch == InitSearch /\ [][NextSearch]_vars


\* ================================================================ claims
NonTerminal == { "SUBMITTED", "UNDER_REVIEW_RECRUITMENTPLUS",
                 "PRESENTED_TO_EMPLOYER", "INTERVIEW_SCHEDULED", "OFFER_MADE" }

\* The workflow order Submitted < UnderReview < PresentedToEmployer <
\* InterviewScheduled < OfferMade < Hired, as positions; 0 for Rejected.
WorkflowPosition(s) ==
    CASE s = "SUBMITTED" -> 1
      [] s = "UNDER_REVIEW_RECRUITMENTPLUS" -> 2
      [] s = "PRESENTED_TO_EMPLOYER" -> 3
      [] s = "INTERVIEW_SCHEDULED" -> 4
      [] s = "OFFER_MADE" -> 5
      [] s = "HIRED" -> 6
      [] OTHER -> 0

\* The applications of a (candidate, job) pair.
ApplicationsOf(c, j) ==
    { i \in DOMAIN applications : /\ applications[i].candidate_id = c
                                  /\ applications[i].job_id = j }

TablesUnchanged ==
    UNCHANGED << jobs, applications, status_history, placements >>

\* The step is a call of create_application by user u for job j.
IsCreate(u, j) ==
    /\ lastOp'.op = "create_application"
    /\ lastOp'.job_id = j
    /\ CreateStep(u, j)

\* C1: every status change applied to an Application leaves a non-terminal
\* status and goes either to a status strictly later in the workflow order
\* or to Rejected; an Application that is Hired or Rejected never changes
\* status.
C1_StatusMovesForward ==
    [][ \A i \in DOMAIN applications :
          applications'[i].status # applications[i].status =>
            /\ applications[i].status \in NonTerminal
            /\ \/ applications'[i].status = "REJECTED"
               \/ WorkflowPosition(applications'[i].status)
                    > WorkflowPosition(applications[i].status) ]_vars

C1_Witness ==
    \E i \in DOMAIN applications :
      /\ lastOp.op = "update_application_status"
      /\ lastOp.result = i
      /\ HistoryOf(DB, i) = << "SUBMITTED", "PRESENTED_TO_EMPLOYER", "REJECTED" >>

\* C2: the number of StatusHistory rows of every Application is one plus the
\* number of status changes applied to it, and every row belongs to an
\* Application.
C2_HistoryCountsChanges ==
    /\ \A i \in DOMAIN applications :
         Cardinality(RowsOf(DB, i)) = status_changes[i] + 1
    /\ \A r \in status_history : r.application_id \in DOMAIN applications

C2_Witness ==
    \E i \in DOMAIN applications :
      /\ status_changes[i] = 2
      /\ applications[i].status = "OFFER_MADE"
      /\ lastOp.op = "make_offer"
      /\ lastOp.result = i

\* C3: a call that raises leaves none of its effects in the tables.
C3_AllOrNothing == lastOp.raised => ~lastOp.effects

\* C4 as claimed: a create for a pair that already has an Application
\* returns that Application, creates none and appends no history row.
C4_DuplicateReturnsExisting ==
    [][ \A u \in Users, j \in Jobs :
          ( ApplicationsOf(ProfileOf(u), j) # {} /\ IsCreate(u, j) ) =>
            /\ lastOp'.result \in ApplicationsOf(ProfileOf(u), j)
            /\ applications' = applications
            /\ status_history' = status_history ]_vars

\* C4 as amended: a create for a pair that already has an Application
\* creates no Application and appends no history row; it returns that
\* Application while the job is OPEN and None once the job is not.
C4_DuplicateCreatesNothing ==
    [][ \A u \in Users, j \in Jobs :
          ( ApplicationsOf(ProfileOf(u), j) # {} /\ IsCreate(u, j) ) =>
            /\ IF jobs[j].status = "OPEN"
               THEN lastOp'.result \in ApplicationsOf(ProfileOf(u), j)
               ELSE lastOp'.result = None
            /\ ~lastOp'.raised
            /\ applications' = applications
            /\ status_history' = status_history ]_vars

C4_Witness ==
    /\ lastOp.op = "create_application"
    /\ lastOp.result \in DOMAIN applications
    /\ ~lastOp.effects
    /\ Len(applications) = 2

\* C5: a create for a job that is not OPEN returns None without raising and
\* changes nothing: no Application, no history row, no counter increment,
\* no notification.
C5_ClosedJobRefused ==
    [][ \A u \in Users, j \in Jobs :
          ( jobs[j].status # "OPEN" /\ IsCreate(u, j) ) =>
            /\ lastOp'.result = None
            /\ ~lastOp'.raised
            /\ lastOp'.sent = {}
            /\ TablesUnchanged ]_vars

C5_Witness ==
    /\ lastOp.op = "create_application"
    /\ lastOp.job_id = "j1"
    /\ jobs["j1"].status = "FILLED"
    /\ lastOp.result = None
    /\ ~lastOp.raised

\* C6: when update_application_status has applied HIRED and returned, the
\* job of the Application is FILLED.
C6_HiredFillsJob ==
    ( /\ lastOp.op = "update_application_status"
      /\ ~lastOp.raised
      /\ lastOp.result \in DOMAIN applications
      /\ applications[lastOp.result].status = "HIRED" )
    => jobs[applications[lastOp.result].job_id].status = "FILLED"

C6_Witness ==
    /\ lastOp.op = "update_application_status"
    /\ ~lastOp.raised
    /\ lastOp.result \in DOMAIN applications
    /\ applications[lastOp.result].status = "HIRED"
    /\ jobs[applications[lastOp.result].job_id].status = "FILLED"

\* The step is a call of update_application_status on application id with
\* the target new, no step of which raises.
IsUpdate(id, new) ==
    /\ lastOp'.op = "update_application_status"
    /\ \E nc \in BOOLEAN, ne \in BOOLEAN : UpdateCall(id, new, nc, ne, "none")

\* C7: a call of update_application_status with the target REJECTED on an
\* Application in a non-terminal status is accepted: it returns the
\* Application, whose status is then REJECTED.
C7_RejectFromNonTerminal ==
    [][ \A id \in DOMAIN applications :
          ( applications[id].status \in NonTerminal /\ IsUpdate(id, "REJECTED") ) =>
            /\ lastOp'.result = id
            /\ ~lastOp'.raised
            /\ applications'[id].status = "REJECTED" ]_vars

C7_Witness ==
    \E i \in DOMAIN applications :
      /\ lastOp.op = "update_application_status"
      /\ lastOp.result = i
      /\ HistoryOf(DB, i) = << "SUBMITTED", "OFFER_MADE", "REJECTED" >>

\* C8: the first StatusHistory row of every Application records SUBMITTED,
\* and an Application no status change was applied to is SUBMITTED: none is
\* created at a later status.
C8_StartsSubmitted ==
    \A i \in DOMAIN applications :
      /\ RowsOf(DB, i) # {}
      /\ HistoryOf(DB, i)[1] = "SUBMITTED"
      /\ status_changes[i] = 0 => applications[i].status = "SUBMITTED"

C8_Witness ==
    \E i \in DOMAIN applications :
      /\ applications[i].status = "HIRED"
      /\ HistoryOf(DB, i)[1] = "SUBMITTED"
      /\ status_changes[i] >= 1

\* C9: the application counter of every job equals the number of
\* Applications created for the job, whatever creates failed or were
\* duplicates.
C9_CounterCountsApplications ==
    \A j \in Jobs :
      jobs[j].application_count =
        Cardinality({ i \in DOMAIN applications : applications[i].job_id = j })

C9_Witness ==
    /\ jobs["j1"].application_count = 2
    /\ lastOp.op = "create_application"
    /\ lastOp.result \in DOMAIN applications
    /\ ~lastOp.effects

\* The step is a call of schedule_interview or make_offer with the id of no
\* Application, in which no database step raises.
IsCallOnMissing(id) ==
    /\ lastOp'.op \in {"schedule_interview", "make_offer"}
    /\ \E nc \in BOOLEAN :
         \/ ScheduleCall(id, nc, "none")
         \/ OfferCall(id, nc, "none")

\* C10: schedule_interview and make_offer given the id of no Application
\* return None without raising and change nothing: no table row, no
\* notification.
C10_MissingApplicationNoEffect ==
    [][ \A id \in CallIds :
          ( id \notin DOMAIN applications /\ IsCallOnMissing(id) ) =>
            /\ lastOp'.result = None
            /\ ~lastOp'.raised
            /\ lastOp'.sent = {}
            /\ TablesUnchanged ]_vars

C10_Witness ==
    /\ lastOp.op \in {"schedule_interview", "make_offer"}
    /\ lastOp.result = None
    /\ ~lastOp.raised
    /\ ~lastOp.effects
    /\ Len(applications) >= 1

\* C11: every call of create_application that creates a new Application
\* sends a "new application" notification to the employer of the job, the
\* user who posted it.
C11_EmployerNotified ==
    ( /\ lastOp.op = "create_application"
      /\ ~lastOp.raised
      /\ lastOp.result \in DOMAIN applications
      /\ lastOp.effects )
    => \E n \in lastOp.sent :
         /\ n.recipient_id = posted_by(lastOp.job_id)
         /\ n.notification_type = "application_new_application"

\* The six items of a complete profile are all present.
AllSixPresent ==
    /\ profile.education > 0
    /\ profile.experience > 0
    /\ profile.skills > 0
    /\ profile.preferences
    /\ profile.summary
    /\ profile.cv_urls > 0

\* C12: after every operation on a candidate's education, experience,
\* skills, preferences, summary or CV, profile_completed is true exactly when
\* all six are present.
C12_CompletionDerived == profile.profile_completed <=> AllSixPresent

\* The channels a call delivers on: those it names, email and in-app when it
\* names none.
ChannelsOf(call) ==
    IF call.channels = << >> THEN << "email", "in_app" >> ELSE call.channels

\* A delivery to recipient r of the call fails on some channel.
SomeChannelFails(call, r) ==
    \E i \in 1 .. Len(ChannelsOf(call)) : << r, ChannelsOf(call)[i] >> \in call.failing

\* Every channel of the call for every recipient, in the order of the call.
AllAttempts(call) ==
    [ n \in 1 .. Len(call.recipient_ids) * Len(ChannelsOf(call)) |->
        << call.recipient_ids[((n - 1) \div Len(ChannelsOf(call))) + 1],
           ChannelsOf(call)[((n - 1) % Len(ChannelsOf(call))) + 1] >> ]

\* C13: send_notification never raises; a delivery that raises on a channel
\* is caught, the remaining channels are still attempted, and the return
\* value is false exactly when at least one channel failed.  The bulk call
\* built on it never raises either and counts as failed the recipients with
\* a failed channel.
C13_SendNeverRaises ==
    delivery.phase = "returned" =>
      /\ ~delivery.outcome.raised
      /\ delivery.outcome.attempted = AllAttempts(delivery)
      /\ delivery.method = "send_notification" =>
           ( ~delivery.outcome.success
               <=> SomeChannelFails(delivery, delivery.recipient_ids[1]) )
      /\ delivery.method = "send_bulk_notification" =>
           /\ delivery.outcome.failure_count =
                Cardinality({ i \in 1 .. Len(delivery.recipient_ids) :
                                SomeChannelFails(delivery, delivery.recipient_ids[i]) })
           /\ delivery.outcome.success_count + delivery.outcome.failure_count
                = Len(delivery.recipient_ids)

C13_Witness ==
    /\ delivery.phase = "returned"
    /\ delivery.method = "send_notification"
    /\ delivery.channels = << "in_app", "sms" >>
    /\ << delivery.recipient_ids[1], "in_app" >> \in delivery.failing
    /\ << delivery.recipient_ids[1], "sms" >> \notin delivery.failing
    /\ ~delivery.outcome.success
    /\ Len(delivery.outcome.attempted) = 2

\* C14: every AI operation whose LLM client is absent, or whose LLM call
\* raises or times out, returns the answer of its rule-based fallback and
\* lets no exception reach the caller.
C14_FallbackNeverRaises ==
    ( /\ assist.phase = "returned"
      /\ assist.op # "match_jobs"
      /\ ~assist.client \/ assist.llm \in { "raises", "times_out" } )
    => /\ ~assist.answer.raised
       /\ assist.answer.source \in { "fallback", "none" }

\* The match score of the job at position i of the call, as the fraction
\* num / den.
ScoreOfJob(i) == match_entry(assist.skills, assist.jobs, i).match_score

\* The job at position i of the call is among the returned matches.
JobReturned(i) ==
    \E k \in 1 .. Len(assist.answer.value) : assist.answer.value[k].job_id = i

\* C20: match_jobs leaves a job out of its result exactly when the job's
\* match score is below 30; a job scoring exactly 30 is returned.
C20_ThresholdInclusive ==
    ( assist.phase = "returned" /\ assist.op = "match_jobs" ) =>
      \A i \in 1 .. Len(assist.jobs) :
        ~JobReturned(i) <=> ScoreOfJob(i).num < 30 * ScoreOfJob(i).den

\* ------------------------------------------------------- search requests
CandidateEndpoints == { "search_candidates", "get_all_candidates" }

\* A request that has been answered and during which nothing failed.
AnsweredCleanly(endpoints) ==
    /\ query.phase = "returned"
    /\ query.call.endpoint \in endpoints
    /\ query.call.failing = NoFailure
    /\ query.response.status = "ok"

\* The rows the answered request can return: those its filter selects, in
\* the order its query produced them. A candidate is returned as a
\* CandidateProfile, so a user without one is not among them.
SelectedRows ==
    CASE query.call.endpoint \in CandidateEndpoints ->
           SelectSeq(query.call.order, LAMBDA i : query.rows[i].has_profile)
      [] query.call.endpoint = "get_jobs" ->
           SelectSeq(Ids(query.rows),
                     LAMBDA i : job_matches(query.rows[i], query.call.status,
                                            query.call.skill, query.call.search))
      [] OTHER -> query.call.order

LimitOf ==
    IF query.call.endpoint = "get_jobs" THEN query.call.limit
    ELSE query.call.filters.page_size

OffsetOf ==
    IF query.call.endpoint = "get_jobs" THEN query.call.skip
    ELSE ( query.call.filters.page - 1 ) * query.call.filters.page_size

\* C15: the total a search reports is the number of rows its filter
\* selects, whatever the page and page size, and the page holds exactly the
\* selected rows at offsets (page-1)*page_size up to page*page_size: a
\* page beyond the data is empty and reports the same total.
C15_TotalOverSameFilter ==
    AnsweredCleanly({ "search_candidates", "get_all_candidates", "search_companies" }) =>
      /\ query.response.total = Len(SelectedRows)
      /\ query.response.items = paginate(SelectedRows, OffsetOf, LimitOf)

\* C16: with N >= 1 rows selected and page size p the response reports
\* total N and ceil(N/p) pages, and page k of them (1 <= k <= ceil(N/p))
\* holds min(p, N-(k-1)*p) items.
C16_PageArithmetic ==
    ( /\ AnsweredCleanly({ "search_candidates", "get_all_candidates", "get_jobs" })
      /\ OffsetOf % LimitOf = 0
      /\ Len(SelectedRows) >= 1 ) =>
      LET N == Len(SelectedRows)
          p == LimitOf
          k == query.response.page
          pages == ( N + p - 1 ) \div p
      IN  /\ query.response.total = N
          /\ query.response.total_pages = pages
          /\ k <= pages => Len(query.response.items) = smaller(p, N - ( k - 1 ) * p)

\* created_at of a row: users are stamped in the order they register.
CreatedAt(i) ==
    IF query.service = "companies" THEN query.rows[i].created_at ELSE i

\* The sort keys a search accepts.
KnownSortKeys == CompanySortKeys

\* C17: a search whose sort_by is not a whitelisted sort key (and that does
\* not itself ask for ascending order) returns its results ordered by
\* created_at, newest first.
C17_UnknownSortFallsBack ==
    ( /\ AnsweredCleanly({ "search_candidates", "search_companies" })
      /\ query.call.filters.sort_by \notin KnownSortKeys
      /\ query.call.filters.sort_order # "asc" ) =>
      \A a, b \in 1 .. Len(query.response.items) :
        a < b => CreatedAt(query.response.items[a]) >= CreatedAt(query.response.items[b])

\* The request carries a skill filter and its page covers every row.
HasSkillFilter ==
    /\ OffsetOf = 0
    /\ LimitOf >= Len(query.rows)
    /\ IF query.call.endpoint = "get_jobs" THEN query.call.skill # << >>
       ELSE query.call.filters.skills # << >>

\* The row passes the filters of the request other than the skill filter.
PassesOtherFilters(i) ==
    IF query.call.endpoint = "get_jobs"
    THEN job_matches(query.rows[i], query.call.status, << >>, query.call.search)
    ELSE user_matches(query.rows[i], query.call.filters) /\ query.rows[i].has_profile

\* One of the row's skills is one of the skills asked for.
SomeSkillMatches(i) ==
    IF query.call.endpoint = "get_jobs"
    THEN \E k \in 1 .. Len(query.rows[i].skills) :
           lower(query.rows[i].skills[k]) = lower(query.call.skill)
    ELSE \E k \in 1 .. Len(query.call.filters.skills) :
           query.call.filters.skills[k] \in query.rows[i].skills

IsReturned(i) ==
    \E k \in 1 .. Len(query.response.items) : query.response.items[k] = i

\* C18: under a skill filter a candidate or job that passes the other
\* filters is returned exactly when one of its skills is one of the
\* filter's skills.
C18_SkillFilterIsOr ==
    ( AnsweredCleanly({ "search_candidates", "get_jobs" }) /\ HasSkillFilter ) =>
      \A i \in 1 .. Len(query.rows) :
        PassesOtherFilters(i) => ( IsReturned(i) <=> SomeSkillMatches(i) )

\* The ids of the page the request asks for.
PageIds == paginate(query.call.order, OffsetOf, LimitOf)

\* A query of the request raised: the count or page query, or the load of
\* the profile of a user of the page.
QueryRaised ==
    /\ query.phase = "returned"
    /\ query.call.endpoint \in CandidateEndpoints
    /\ \/ query.call.failing.kind = "query"
       \/ /\ query.call.failing.kind = "profile"
          /\ \E k \in 1 .. Len(PageIds) : PageIds[k] = query.call.failing.user

\* C19 as stated: when a query of a search or list request raises, the
\* endpoint answers successfully with an empty list and total 0.
C19_EmptyOnAnyFailure ==
    QueryRaised =>
      /\ query.response.status = "ok"
      /\ query.response.items = << >>
      /\ query.response.total = 0

\* C19 as amended: the exception never reaches the client; when the count
\* or page query raises, or the building of the response, the answer is an
\* empty list with total 0; when only the load or conversion of one
\* candidate raises, the answer leaves that candidate out and keeps the
\* total the query counted.
C19_Degrades ==
    ( /\ query.phase = "returned"
      /\ query.call.endpoint \in CandidateEndpoints
      /\ query.call.failing # NoFailure ) =>
      /\ query.response.status = "ok"
      /\ query.call.failing.kind \in { "query", "response" } =>
           /\ query.response.items = << >>
           /\ query.response.total = 0
      /\ query.call.failing.kind \in { "profile", "convert" } =>
           /\ query.response.total = Len(query.call.order)
           /\ query.response.items =
                SelectSeq(PageIds, LAMBDA i : /\ query.rows[i].has_profile
                                              /\ i # query.call.failing.user)

\* The count query raised although candidates match the request.
C19_Witness ==
    /\ QueryRaised
    /\ query.call.failing.kind = "query"
    /\ Len(query.call.order) > 0
    /\ query.response.items = << >>
    /\ query.response.total = 0

\* ------------------------------------------------------ rule-based score
\* The number of skills of the CV of the call that match some skill of the
\* job at position i.
MatchingSkillCount(i) ==
    Cardinality({ k \in 1 .. Len(assist.skills) :
                    \E j \in 1 .. Len(assist.jobs[i]) :
                      skill_matches(assist.skills[k], assist.jobs[i][j]) })

JobSkillCount(i) == Len(assist.jobs[i])

MatchJobsReturned == assist.phase = "returned" /\ assist.op = "match_jobs"

\* C21: the score match_jobs reports for a job is the number of matching
\* skills / max(number of job skills, 1) * 100; a job without skills scores
\* 0 and so is not among the matches; the CV [Python, SQL] scores 50 against
\* the job [Python, Java, SQL, AWS].
C21_ScoreFormula ==
    MatchJobsReturned =>
      /\ \A k \in 1 .. Len(assist.answer.value) :
           LET entry == assist.answer.value[k]
               i     == entry.job_id
           IN  /\ JobSkillCount(i) > 0
               /\ entry.match_score.num * JobSkillCount(i)
                    = MatchingSkillCount(i) * 100 * entry.match_score.den
      /\ \A i \in 1 .. Len(assist.jobs) :
           ( assist.skills = << Python, Sql >>
               /\ assist.jobs[i] = << Python, Java, Sql, Aws >> ) =>
             \E k \in 1 .. Len(assist.answer.value) :
               /\ assist.answer.value[k].job_id = i
               /\ assist.answer.value[k].match_score.num
                    = 50 * assist.answer.value[k].match_score.den

C21_Witness ==
    /\ MatchJobsReturned
    /\ assist.skills = << Python, Sql >>
    /\ assist.jobs = << << >>, << Python, Java, Sql, Aws >> >>
    /\ Len(assist.answer.value) = 1

\* C30: every score match_jobs reports lies between 0 and 100, and the
\* matching skills it counts for a job are no more than the job's skills.
C30_ScoreWithinHundred ==
    MatchJobsReturned =>
      \A k \in 1 .. Len(assist.answer.value) :
        LET entry == assist.answer.value[k]
        IN  /\ 0 <= entry.match_score.num
            /\ entry.match_score.num <= 100 * entry.match_score.den
            /\ Len(entry.matching_skills) <= JobSkillCount(entry.job_id)

\* ------------------------------------------------------------- experience
\* The years of one parsed entry when "Present" means the year of the call.
EntryYears(entry) ==
    LET ranges == years_matches(entry.duration)
    IN  IF ranges = {} THEN 0
        ELSE LET at == CHOOSE i \in ranges : \A k \in ranges : i <= k
             IN  ( IF entry.duration[at + 2] = "Present" THEN assist.now
                   ELSE int(entry.duration[at + 2]) )
                 - int(entry.duration[at])

RECURSIVE SumOfEntryYears(_)
SumOfEntryYears(parsed) ==
    IF parsed = << >> THEN 0
    ELSE EntryYears(Head(parsed)) + SumOfEntryYears(Tail(parsed))

\* C22: total_experience_years is the sum over the parsed entries of
\* end year - start year, an entry ending in "Present" ending in the year of
\* the call; the single entry "2018 - Present" parsed in 2024 gives 6.
C22_TotalExperienceYears ==
    ( assist.phase = "returned" /\ assist.op = "_extract_experience" ) =>
      /\ assist.answer.total_years = SumOfEntryYears(assist.answer.experience)
      /\ ( /\ assist.now = 2024
           /\ assist.entries
                = << [ parts |-> 3, duration |-> << "2018", "-", "Present" >> ] >> )
         => assist.answer.total_years = 6

\* --------------------------------------------------------------- managers
\* The profiles reached from profile i by following manager_id at least
\* once and at most `steps` times.
RECURSIVE ManagersAbove(_, _)
ManagersAbove(i, steps) ==
    IF steps = 0 \/ consultant_profiles[i].manager_id = None THEN {}
    ELSE { consultant_profiles[i].manager_id }
           \cup ManagersAbove(consultant_profiles[i].manager_id, steps - 1)

TargetOf(op) ==
    IF op = "schedule_interview" THEN "INTERVIEW_SCHEDULED" ELSE "OFFER_MADE"

\* The step changes the interview fields (schedule_interview) or the offer
\* fields (make_offer) of Application i.
AuxiliaryChanged(op, i) ==
    IF op = "schedule_interview"
    THEN applications'[i].interview_date # applications[i].interview_date
    ELSE applications'[i].offer_salary # applications[i].offer_salary

\* The step applies the status change to the target of op on Application i
\* and appends its history row.
StatusChangeApplied(op, i) ==
    /\ applications[i].status # TargetOf(op)
    /\ applications'[i].status = TargetOf(op)
    /\ \E r \in status_history' \ status_history :
         r.application_id = i /\ r.status = TargetOf(op)

\* C24: a call of schedule_interview or make_offer changes the interview or
\* offer fields of an Application only together with the status change to
\* its target and the history row of that change, and sets them whenever it
\* applies the change; it returns the Application only when the change was
\* applied.
C24_AuxiliaryOnlyWithStatus ==
    [][ lastOp'.op \in { "schedule_interview", "make_offer" } =>
          /\ \A i \in DOMAIN applications :
               /\ AuxiliaryChanged(lastOp'.op, i) => StatusChangeApplied(lastOp'.op, i)
               /\ ( StatusChangeApplied(lastOp'.op, i) /\ ~lastOp'.raised ) =>
                    IF lastOp'.op = "schedule_interview"
                    THEN applications'[i].interview_date = Given
                    ELSE applications'[i].offer_salary = Given
          /\ ( lastOp'.result \in DOMAIN applications /\ ~lastOp'.raised ) =>
               StatusChangeApplied(lastOp'.op, lastOp'.result) ]_vars

\* ----------------------------------------------------------- one opening
\* C27: no job has more than one Application in status HIRED.
C27_OneHirePerJob ==
    \A j \in Jobs : hired_count(DB, j) <= 1

\* ------------------------------------------------------------ job status
\* The user may post for the company of the job: an employer profile in the
\* company with can_post_jobs, or the admin or superadmin role.
MayPost(user_id, job_id) ==
    \/ \E r \in employer_profiles :
         r = [ user_id |-> user_id, company_id |-> company_id(job_id),
               can_post_jobs |-> TRUE ]
    \/ user_role(user_id) \in { "admin", "superadmin" }

\* C29: publish_job and close_job change the status of a job only from
\* DRAFT to OPEN (publish) or from DRAFT or OPEN to CLOSED (close), only of
\* the job they are called on and only for a user who may post for its
\* company; a CLOSED, FILLED or CANCELLED job keeps its status.
C29_PublishCloseOnly ==
    [][ \A j \in Jobs :
          jobs'[j].status # jobs[j].status =>
            /\ lastOp'.job_id = j
            /\ MayPost(lastOp'.user_id, j)
            /\ ~lastOp'.raised
            /\ \/ /\ lastOp'.op = "publish_job"
                  /\ jobs[j].status = "DRAFT"
                  /\ jobs'[j].status = "OPEN"
               \/ /\ lastOp'.op = "close_job"
                  /\ jobs[j].status \in { "DRAFT", "OPEN" }
                  /\ jobs'[j].status = "CLOSED" ]_vars

\* The employer has published the job of the company they may post for.
C29_Witness ==
    /\ lastOp.op = "publish_job"
    /\ lastOp.user_id = "e1"
    /\ lastOp.effects
    /\ lastOp.result = "j1"
    /\ jobs["j1"].status = "OPEN"

\* ---------------------------------------------------- overlapping requests
\* C25: at most one Application exists for each (candidate, job) pair,
\* however the create requests overlap.
C25_OnePerPairWhenOverlapping ==
    \A c \in Candidates, j \in Jobs : Cardinality(ApplicationsOf(c, j)) <= 1

\* The status changes the workflow allows, read off the workflow order.
AllowedPair(from, to) ==
    /\ from \in NonTerminal
    /\ to = "REJECTED" \/ WorkflowPosition(to) > WorkflowPosition(from)

\* C26: the status of every Application is the status of its most recent
\* history row, and every two consecutive history rows are an allowed
\* transition, however the status changes overlap.
C26_HistoryConsistentWhenOverlapping ==
    \A i \in DOMAIN applications :
      LET history == HistoryOf(DB, i)
      IN  /\ history # << >>
          /\ applications[i].status = history[Len(history)]
          /\ \A n \in 1 .. (Len(history) - 1) : AllowedPair(history[n], history[n + 1])

\* C28: once the overlapping create requests have completed, and they were
\* made by different candidates, the counter of every job has grown by the
\* number of Applications created for it.
C28_NoLostIncrement ==
    ( Pending = {} /\ C25_OnePerPairWhenOverlapping ) =>
      \A j \in Jobs :
        jobs[j].application_count
          = Cardinality({ i \in DOMAIN applications : applications[i].job_id = j })

====
